---- MODULE Spec2Model ----
(***************************************************************************)
(* Model of the pepeunit Go client: the MQTT connection manager            *)
(* (src/mqtt_client.go, second definition of PepeunitMQTTClient, lines     *)
(* 163-460), the logger's mirroring of log entries onto the log topic      *)
(* (src/unnamed/part_011) and the update orchestrator (src/client.go).     *)
(*                                                                         *)
(* Every goroutine is a thread with a call stack of frames; one action is  *)
(* one step of the frame on top of a thread's stack.  The transport (the   *)
(* paho client) is the environment: it completes or fails handshakes and   *)
(* send attempts, loses connections, reconnects by itself and invokes the  *)
(* callbacks the client registered.                                        *)
(***************************************************************************)
EXTENDS Integers, Sequences, FiniteSets, TLC

\* ----------------------------------------------------------------- bounds
MaxCalls == 2
MaxSessions == 2
MaxLost == 1
MaxUp == 2
MaxMsgs == 2

Topics == {"t1", "t2"}
Batches == {<<"t1">>, <<"t1", "t2">>}
Callers == {"c1"}
Aux == {"x1", "x2"}
Reader == "rd"
Threads == Callers \cup Aux \cup {Reader}
Slots == 1..MaxSessions
NoOwner == "none"

\* ---------------------------------------------------------- program state
VARIABLES
    subscriptions,  \* c.subscriptions: the subscription journal (keys of the map)
    client,         \* c.client: slot of the current session, 0 for nil
    connected,      \* c.connected
    connectMu,      \* c.connectMu: the thread holding it, or NoOwner
    sess,           \* the transport sessions created by mqtt.NewClient
    isPublishing,   \* Logger.isPublishing
    logTopic,       \* the schema lists a topic under output-base "log/pepeunit"
    acks,           \* the broker acknowledges every subscribe request it receives
    stack,          \* call stack of every goroutine
    callsLeft,      \* calls the callers may still start
    lostLeft,       \* connection losses the transport may still suffer
    upLeft,         \* handshakes the broker may still accept
    msgsLeft,       \* inbound messages still to arrive
    reader,         \* the transport's reader path
    desired,        \* history: net effect of the Subscribe/Unsubscribe calls
    reAtt,          \* history: subscribe attempts the last reconnect caused, per topic
    upd,            \* the update orchestrator (PepeunitClient) and the files it manages
    sm,             \* the SchemaManager, its file and the goroutine that reads it
    mc,             \* the main cycle: its goroutine, ticker, context and clock
    inp,            \* the input handlers and the message the combined handler handles
    shut,           \* history: Disconnect has returned and Connect was not called since
    subFailed       \* history: a subscribe attempt timed out or ended with an error

vars == <<subscriptions, client, connected, connectMu, sess, isPublishing,
          logTopic, acks, upd, sm, mc, inp, shut, subFailed, stack, callsLeft, lostLeft, upLeft, msgsLeft,
          reader, desired, reAtt>>

\* ------------------------------------------------------------- log levels
GetIntLevel(level) ==
    CASE level = "Debug" -> 0
      [] level = "Info" -> 1
      [] level = "Warning" -> 2
      [] level = "Error" -> 3
      [] level = "Critical" -> 4
      [] OTHER -> 0

PU_MIN_LOG_LEVEL == "Debug"

shouldPublishToMQTT(level) == GetIntLevel(level) >= GetIntLevel(PU_MIN_LOG_LEVEL)

\* --------------------------------------------------------------- helpers
Range(q) == {q[j] : j \in 1..Len(q)}

Top(t) == stack[t][Len(stack[t])]
Idle(t) == stack[t] = <<>>
WithTop(st, f) == [st EXCEPT ![Len(st)] = f]
Pop(st) == SubSeq(st, 1, Len(st) - 1)
At(t, ops, pc) == ~Idle(t) /\ Top(t).op \in ops /\ Top(t).pc = pc

AllFrames == UNION {Range(stack[t]) : t \in Threads}

\* c.client != nil && c.client.IsConnected()
IsConnected == client # 0 /\ sess[client].status = "up"

NewSession == [status |-> "connecting", subs |-> {}]
FreeSlots == {s \in Slots : sess[s].status \in {"unused", "closed"}}
Handshakes == {s \in Slots : sess[s].status = "connecting"}
FreeAux == {x \in Aux : Idle(x)}

NoAttempts == [k \in Topics |-> 0]

\* ---------------------------------------------------------------- frames
RetryOps == {"Publish", "Subscribe", "Unsubscribe"}
ConnOps == {"Connect", "ForceReconnect"}
AuxOps == {"ConnectionLost", "OnConnect", "Replay", "Msg"}

\* A call of Publish, SubscribeTopics or UnsubscribeTopics.  pre: the session was
\* connected when the call checked it; fr0: forceReconnect calls made before the
\* first send attempt; fr, att: forceReconnect calls and send attempts made for
\* the current unit of work (the message, the batch, or the current topic of a
\* subscribe batch); made: the session the call's last forceReconnect created;
\* good: what the call sent whose last attempt was acknowledged in time.
CallFrame(op, topics, mirror) ==
    [op |-> op, pc |-> "check", topics |-> topics, i |-> 1, mirror |-> mirror,
     pre |-> FALSE, fr0 |-> 0, fr |-> 0, att |-> 0, made |-> 0,
     tried |-> {}, failed |-> {}, good |-> {}, ret |-> "none"]

\* history: what a call sends, the topics of its batch or the message, and what
\* one send attempt of the call is for
Units(f) == IF f.op = "Publish" THEN {"msg"} ELSE {f.topics[j] : j \in 1..Len(f.topics)}
Sent(f) == IF f.op = "Subscribe" THEN {f.topics[f.i]} ELSE Units(f)

ConnFrame(op) == [op |-> op, pc |-> "lock", s |-> 0, ret |-> "none"]
DisconnectFrame == [op |-> "Disconnect", pc |-> "lock", ret |-> "none"]
HandlerFrame(op, s) == [op |-> op, pc |-> "run", s |-> s, ret |-> "none"]
ReplayFrame(s) ==
    [op |-> "Replay", pc |-> "snap", s |-> s, snap |-> {}, journal |-> {},
     todo |-> {}, cnt |-> NoAttempts, ret |-> "none"]
MsgFrame == [op |-> "Msg", pc |-> "handler", ret |-> "none"]

\* ---------------------------------------------------------------- logger
\* Logger.log and Logger.publishToMQTT: an entry that is not file-only is
\* published on the log topic through MQTTClient.Publish, unless a log publish
\* is already in flight.
Mirrors(level, fileOnly) ==
    /\ shouldPublishToMQTT(level)
    /\ ~fileOnly
    /\ ~isPublishing
    /\ logTopic

\* What a goroutine does next without looking at shared state, once the frame
\* on top of its stack is where a log call left it: the error branch calls
\* forceReconnect, the OnConnect handler starts resubscribeAll (go
\* c.resubscribeAll(), shown as the same thread going on), a finished callback
\* or goroutine ends.
Settle(st) ==
    IF st = <<>> THEN st
    ELSE LET f == st[Len(st)] IN
         CASE f.op \in RetryOps /\ f.pc = "errfr" ->
                Append(WithTop(st, [f EXCEPT !.pc = "try3", !.fr = f.fr + 1]),
                       ConnFrame("ForceReconnect"))
           [] f.op = "OnConnect" /\ f.pc = "go" -> <<ReplayFrame(f.s)>>
           [] f.op \in AuxOps /\ f.pc = "done" -> <<>>
           [] OTHER -> st

\* The calling frame goes on as f; the log call may put a Publish on top of it.
Log(t, f, level, fileOnly) ==
    IF Mirrors(level, fileOnly)
    THEN /\ stack' = [stack EXCEPT ![t] =
                        Append(WithTop(@, f), CallFrame("Publish", <<>>, TRUE))]
         /\ isPublishing' = TRUE
    ELSE /\ stack' = [stack EXCEPT ![t] = Settle(WithTop(@, f))]
         /\ UNCHANGED isPublishing

\* --------------------------------------------------------------- journal
\* SubscribeTopics with a loop that stops after the first topic of the batch
JournalAddFirst(j, topics) ==
    IF topics = <<>> THEN j ELSE j \cup {Head(topics)}

RECURSIVE JournalAdd(_, _)
\* SubscribeTopics: for _, topic := range topics { c.subscriptions[topic] = 1 }
JournalAdd(j, topics) ==
    IF topics = <<>> THEN j ELSE JournalAdd(j \cup {Head(topics)}, Tail(topics))

\* UnsubscribeTopics with a loop that stops after the first topic of the batch
JournalDeleteFirst(j, topics) ==
    IF topics = <<>> THEN j ELSE j \ {Head(topics)}

RECURSIVE JournalDelete(_, _)
\* UnsubscribeTopics: for _, topic := range topics { delete(c.subscriptions, topic) }
JournalDelete(j, topics) ==
    IF topics = <<>> THEN j ELSE JournalDelete(j \ {Head(topics)}, Tail(topics))

\* history: additions minus removals, in call order
NetEffect(d, op, topics) ==
    IF op = "Subscribe" THEN d \cup Range(topics) ELSE d \ Range(topics)

\* ------------------------------------------------------- calls by callers
StartCall(t, f) ==
    /\ t \in Callers
    /\ Idle(t)
    /\ callsLeft > 0
    /\ callsLeft' = callsLeft - 1
    /\ stack' = [stack EXCEPT ![t] = <<f>>]

StartConnect(t) ==
    /\ StartCall(t, ConnFrame("Connect"))
    /\ shut' = FALSE
    /\ UNCHANGED <<subscriptions, client, connected, connectMu, sess, isPublishing,
                   logTopic, acks, upd, sm, mc, inp, subFailed, lostLeft, upLeft, msgsLeft, reader, desired, reAtt>>

StartDisconnect(t) ==
    /\ StartCall(t, DisconnectFrame)
    /\ UNCHANGED <<subscriptions, client, connected, connectMu, sess, isPublishing,
                   logTopic, acks, upd, sm, mc, inp, shut, subFailed, lostLeft, upLeft, msgsLeft, reader, desired, reAtt>>

StartPublish(t) ==
    /\ StartCall(t, CallFrame("Publish", <<>>, FALSE))
    /\ UNCHANGED <<subscriptions, client, connected, connectMu, sess, isPublishing,
                   logTopic, acks, upd, sm, mc, inp, shut, subFailed, lostLeft, upLeft, msgsLeft, reader, desired, reAtt>>

\* SubscribeTopics up to the unlock of subscriptionsMu
StartSubscribe(t, topics) ==
    /\ StartCall(t, CallFrame("Subscribe", topics, FALSE))
    /\ subscriptions' = JournalAdd(subscriptions, topics)
    /\ desired' = NetEffect(desired, "Subscribe", topics)
    /\ UNCHANGED <<client, connected, connectMu, sess, isPublishing,
                   logTopic, acks, upd, sm, mc, inp, shut, subFailed, lostLeft, upLeft, msgsLeft, reader, reAtt>>

\* UnsubscribeTopics up to the unlock of subscriptionsMu
StartUnsubscribe(t, topics) ==
    /\ StartCall(t, CallFrame("Unsubscribe", topics, FALSE))
    /\ subscriptions' = JournalDelete(subscriptions, topics)
    /\ desired' = NetEffect(desired, "Unsubscribe", topics)
    /\ UNCHANGED <<client, connected, connectMu, sess, isPublishing,
                   logTopic, acks, upd, sm, mc, inp, shut, subFailed, lostLeft, upLeft, msgsLeft, reader, reAtt>>

\* ------------------------------------------- retry-then-reconnect policy
\* an entry check that lets Publish go on without a session
EntryReconnectExceptPublish(op) == ~IsConnected /\ op # "Publish"

\* if c.client == nil || !c.client.IsConnected() { forceReconnect() }
EntryReconnect(op) == ~IsConnected

Push(st, f, child) == Append(WithTop(st, f), child)

\* The entry check of Publish, SubscribeTopics and UnsubscribeTopics.
CheckConnected(t) ==
    /\ At(t, RetryOps, "check")
    /\ LET f == [Top(t) EXCEPT !.pre = IsConnected] IN
       stack' = [stack EXCEPT ![t] =
           IF EntryReconnect(f.op)
           THEN Push(@, [f EXCEPT !.pc = "fr0", !.fr0 = 1], ConnFrame("ForceReconnect"))
           ELSE WithTop(@, [f EXCEPT !.pc = "try1"])]
    /\ UNCHANGED <<subscriptions, client, connected, connectMu, sess, isPublishing,
                   logTopic, acks, upd, sm, mc, inp, shut, subFailed, callsLeft, lostLeft, upLeft, msgsLeft, reader, desired, reAtt>>

\* What the transport can answer to a send attempt: "ok" (acknowledged in time),
\* "late" (it took effect, the wait timed out), "timeout", "err".
Outcomes(op, up) ==
    IF ~up THEN {"timeout", "err"}
    ELSE IF op = "Publish" THEN {"ok", "timeout", "err"}
    ELSE IF op = "Subscribe" /\ acks THEN {"ok", "late"}
    ELSE {"ok", "late", "timeout", "err"}

TimedOut(o) == o \in {"late", "timeout"}

\* a second attempt whose wait is not looked at
AfterAttemptUnchecked(pc, o) ==
    CASE o = "ok" -> "success"
      [] TimedOut(o) /\ pc = "try1" -> "reconnect"
      [] TimedOut(o) /\ pc = "try2" -> "success"
      [] TimedOut(o) -> "fail"
      [] o = "err" /\ pc \in {"try1", "try2"} -> "errlog"
      [] OTHER -> "fail"

\* The control flow after the attempt made at pc: try1 is the first attempt,
\* try2 the one after a timeout and a reconnect, try3 the one the error branch
\* makes (token2).
AfterAttempt(pc, o) ==
    CASE o = "ok" -> "success"
      [] TimedOut(o) /\ pc = "try1" -> "reconnect"
      [] TimedOut(o) -> "fail"
      [] o = "err" /\ pc \in {"try1", "try2"} -> "errlog"
      [] OTHER -> "fail"

\* a failing topic that is logged and skipped: the loop goes on with the next one
AfterFailureContinue(f) ==
    IF f.op = "Subscribe" /\ f.i < Len(f.topics)
    THEN [f EXCEPT !.i = f.i + 1, !.pc = "try1", !.att = 0, !.fr = 0]
    ELSE [f EXCEPT !.pc = "done", !.ret = "err"]

\* A final failure returns the error to the caller.
AfterFailure(f) == [f EXCEPT !.pc = "done", !.ret = "err"]

\* A success ends Publish and UnsubscribeTopics; SubscribeTopics goes on with
\* the next topic of the batch, or logs and returns nil after the last one.
AfterSuccess(f) ==
    IF f.op # "Subscribe" THEN [f EXCEPT !.pc = "done", !.ret = "ok"]
    ELSE IF f.i < Len(f.topics)
         THEN [f EXCEPT !.i = f.i + 1, !.pc = "try1", !.att = 0, !.fr = 0,
                        !.pre = IsConnected]
         ELSE [f EXCEPT !.pc = "oklog"]

Bump(n) == IF n < 2 THEN n + 1 ELSE 2

\* The broker's subscriptions of session s after a send that took effect.
Effect(f, subs) ==
    CASE f.op = "Subscribe" -> subs \cup {f.topics[f.i]}
      [] f.op = "Unsubscribe" -> subs \ Range(f.topics)
      [] OTHER -> subs

\* One send attempt on c.client and the wait for its token.
Attempt(t) ==
    /\ ~Idle(t)
    /\ Top(t).op \in RetryOps
    /\ Top(t).pc \in {"try1", "try2", "try3"}
    /\ LET f == Top(t)
           up == IsConnected
       IN \E o \in Outcomes(f.op, up) :
          LET g == [f EXCEPT !.att = f.att + 1,
                             !.tried = IF f.op = "Subscribe"
                                       THEN f.tried \cup {f.topics[f.i]} ELSE f.tried,
                             !.good = IF o = "ok" THEN f.good \cup Sent(f)
                                      ELSE f.good \ Sent(f)]
              next == AfterAttempt(f.pc, o)
          IN /\ sess' = IF up /\ o \in {"ok", "late"}
                        THEN [sess EXCEPT ![client].subs = Effect(f, @)]
                        ELSE sess
             /\ subFailed' = (subFailed \/ (f.op = "Subscribe" /\ o # "ok"))
             /\ reAtt' = IF up /\ f.op = "Subscribe" /\ f.made = client
                         THEN [reAtt EXCEPT ![f.topics[f.i]] = Bump(@)]
                         ELSE reAtt
             /\ stack' = [stack EXCEPT ![t] =
                  CASE next = "success" -> WithTop(@, AfterSuccess(g))
                    [] next = "reconnect" ->
                         Push(@, [g EXCEPT !.pc = "try2", !.fr = g.fr + 1],
                              ConnFrame("ForceReconnect"))
                    [] next = "errlog" -> WithTop(@, [g EXCEPT !.pc = "errlog"])
                    [] OTHER ->
                         WithTop(@, AfterFailure(
                             [g EXCEPT !.failed = IF g.op = "Subscribe"
                                                  THEN g.failed \cup {g.topics[g.i]}
                                                  ELSE g.failed]))]
    /\ UNCHANGED <<subscriptions, client, connected, connectMu, isPublishing,
                   logTopic, acks, upd, sm, mc, inp, shut, callsLeft, lostLeft, upLeft, msgsLeft, reader, desired>>

\* c.Logger.Error("Failed to ..."); _ = c.forceReconnect() of the error branch
ErrLog(t) ==
    /\ At(t, RetryOps, "errlog")
    /\ Log(t, [Top(t) EXCEPT !.pc = "errfr"], "Error", FALSE)
    /\ UNCHANGED <<subscriptions, client, connected, connectMu, sess,
                   logTopic, acks, upd, sm, mc, inp, shut, subFailed, callsLeft, lostLeft, upLeft, msgsLeft, reader, desired, reAtt>>

\* c.Logger.Info("Success subscribed to %d topics"); return nil
OkLog(t) ==
    /\ At(t, {"Subscribe"}, "oklog")
    /\ Log(t, [Top(t) EXCEPT !.pc = "done", !.ret = "ok"], "Info", FALSE)
    /\ UNCHANGED <<subscriptions, client, connected, connectMu, sess,
                   logTopic, acks, upd, sm, mc, inp, shut, subFailed, callsLeft, lostLeft, upLeft, msgsLeft, reader, desired, reAtt>>

\* A finished frame returns: to the caller, to the log call that published, or
\* the goroutine ends.  publishToMQTT's deferred function clears isPublishing.
Return(t) ==
    /\ ~Idle(t)
    /\ Top(t).pc = "done"
    /\ stack' = [stack EXCEPT ![t] = Settle(Pop(@))]
    /\ isPublishing' = IF Top(t).op = "Publish" /\ Top(t).mirror
                       THEN FALSE ELSE isPublishing
    /\ shut' = IF Top(t).op = "Disconnect" THEN TRUE ELSE shut
    /\ UNCHANGED <<subscriptions, client, connected, connectMu, sess,
                   logTopic, acks, upd, sm, mc, inp, subFailed, callsLeft, lostLeft, upLeft, msgsLeft, reader, desired, reAtt>>

\* ------------------------------------------- Connect and forceReconnect
\* an entry reconnect whose error is dropped like the later ones
AfterReconnectIgnored(parent, r, s) ==
    IF parent.pc = "fr0"
    THEN [parent EXCEPT !.pc = "try1", !.made = s]
    ELSE [parent EXCEPT !.made = s]

\* What a ForceReconnect frame hands to the call that made it: the entry
\* reconnect's error ends the call, which returns it; the result of
\* `_ = c.forceReconnect()` is dropped.
AfterReconnect(parent, r, s) ==
    IF parent.pc = "fr0"
    THEN IF r # "ok"
         THEN [parent EXCEPT !.pc = "done", !.ret = r, !.made = s]
         ELSE [parent EXCEPT !.pc = "try1", !.made = s]
    ELSE [parent EXCEPT !.made = s]

\* The frame returns r: Connect to its caller, forceReconnect to the call.
ConnReturn(st, r) ==
    LET f == st[Len(st)] IN
    IF f.op = "Connect"
    THEN WithTop(st, [f EXCEPT !.pc = "done", !.ret = r])
    ELSE WithTop(Pop(st), AfterReconnect(st[Len(st) - 1], r, f.s))

\* forceReconnect tears the current session down before it connects again
TearsDown(op) == op = "ForceReconnect"

\* The sessions after forceReconnect's c.client.Disconnect(250)
TornDown(op) ==
    IF TearsDown(op) /\ client # 0
    THEN [sess EXCEPT ![client] = [status |-> "closed", subs |-> {}]]
    ELSE sess

\* history: a slot that is used again is a new session; the frames that
\* remember the session that had the slot before forget it.
Forget(st, s) ==
    [t \in Threads |->
        [j \in 1..Len(st[t]) |->
            LET f == st[t][j] IN
            IF f.op \in RetryOps /\ f.made = s THEN [f EXCEPT !.made = 0]
            ELSE IF f.op \in {"OnConnect", "ConnectionLost", "Replay"} /\ f.s = s
                 THEN [f EXCEPT !.s = 0]
            ELSE f]]

FirstFree(ss) ==
    CHOOSE s \in Slots :
        /\ ss[s].status \in {"unused", "closed"}
        /\ \A r \in Slots : ss[r].status \in {"unused", "closed"} => s <= r

\* c.connectMu.Lock(); forceReconnect: c.client.Disconnect(250); c.connected =
\* false; connectLocked: c.client = mqtt.NewClient(opts); token := c.client.Connect()
Lock(t) ==
    /\ At(t, ConnOps, "lock")
    /\ connectMu = NoOwner
    /\ \E s \in Slots : TornDown(Top(t).op)[s].status \in {"unused", "closed"}
    /\ LET new == FirstFree(TornDown(Top(t).op)) IN
       /\ connectMu' = t
       /\ connected' = IF TearsDown(Top(t).op) THEN FALSE ELSE connected
       /\ client' = new
       /\ sess' = [TornDown(Top(t).op) EXCEPT ![new] = NewSession]
       /\ reAtt' = NoAttempts
       /\ stack' = [Forget(stack, new) EXCEPT ![t] =
                      WithTop(@, [Top(t) EXCEPT !.pc = "wait", !.s = new])]
    /\ UNCHANGED <<subscriptions, isPublishing, logTopic, acks, upd, sm, mc, inp, shut, subFailed, callsLeft,
                   lostLeft, upLeft, msgsLeft, reader, desired>>

FirstAux == CHOOSE x \in FreeAux : \A y \in FreeAux : x = y \/ x = "x1"

\* The transport runs a callback on a goroutine of its own.
Spawn(st, f) == [st EXCEPT ![FirstAux] = <<f>>]

\* The handshake is acknowledged within the wait: the transport invokes the
\* OnConnect handler, token.WaitTimeout returns true and token.Error() is nil.
HandshakeOk(t) ==
    /\ At(t, ConnOps, "wait")
    /\ FreeAux # {}
    /\ upLeft > 0
    /\ upLeft' = upLeft - 1
    /\ sess' = [sess EXCEPT ![Top(t).s].status = "up"]
    /\ stack' = Spawn([stack EXCEPT ![t] = WithTop(@, [Top(t) EXCEPT !.pc = "okset"])],
                      HandlerFrame("OnConnect", Top(t).s))
    /\ UNCHANGED <<subscriptions, client, connected, connectMu, isPublishing,
                   logTopic, acks, upd, sm, mc, inp, shut, subFailed, callsLeft, lostLeft, msgsLeft, reader, desired, reAtt>>

\* The status of the session whose handshake did not succeed: a refused one is
\* over, one that timed out is still being tried (SetConnectRetry(true)).
AfterFailedHandshake(kind) == IF kind = "refused" THEN "closed" ELSE "connecting"

\* an error that does not tell a timeout from a refusal
ConnectErrorWithoutCause(kind) == "failed"

\* The error connectLocked returns: "failed to connect to MQTT broker: timeout",
\* or "failed to connect to MQTT broker: " with token.Error()
ConnectError(kind) == IF kind = "timeout" THEN "timeout" ELSE "failed"

\* token.WaitTimeout(15s) is false, or token.Error() is not nil: return the error
\* (the deferred Unlock runs).
HandshakeFails(t, kind) ==
    /\ At(t, ConnOps, "wait")
    /\ sess' = [sess EXCEPT ![Top(t).s].status = AfterFailedHandshake(kind)]
    /\ connectMu' = NoOwner
    /\ stack' = [stack EXCEPT ![t] = ConnReturn(@, ConnectError(kind))]
    /\ UNCHANGED <<subscriptions, client, connected, isPublishing, logTopic, acks, upd, sm, mc, inp, shut, subFailed,
                   callsLeft, lostLeft, upLeft, msgsLeft, reader, desired, reAtt>>

\* c.connected = true; c.Logger.Info("MQTT client connected successfully");
\* return nil (the deferred Unlock runs), unless the log entry is being published
ConnectedSet(t) ==
    /\ At(t, ConnOps, "okset")
    /\ connected' = TRUE
    /\ IF Mirrors("Info", FALSE)
       THEN /\ Log(t, [Top(t) EXCEPT !.pc = "unlock"], "Info", FALSE)
            /\ UNCHANGED connectMu
       ELSE /\ connectMu' = NoOwner
            /\ stack' = [stack EXCEPT ![t] = ConnReturn(@, "ok")]
            /\ UNCHANGED isPublishing
    /\ UNCHANGED <<subscriptions, client, sess, logTopic, acks, upd, sm, mc, inp, shut, subFailed, callsLeft,
                   lostLeft, upLeft, msgsLeft, reader, desired, reAtt>>

\* return nil (the deferred Unlock runs)
Unlock(t) ==
    /\ At(t, ConnOps, "unlock")
    /\ connectMu' = NoOwner
    /\ stack' = [stack EXCEPT ![t] = ConnReturn(@, "ok")]
    /\ UNCHANGED <<subscriptions, client, connected, sess, isPublishing, logTopic, acks, upd, sm, mc, inp, shut, subFailed,
                   callsLeft, lostLeft, upLeft, msgsLeft, reader, desired, reAtt>>

\* a Disconnect without the test of c.client.IsConnected()
DisconnectUnguarded(t) ==
    /\ At(t, {"Disconnect"}, "lock")
    /\ connectMu = NoOwner
    /\ sess' = IF client # 0
               THEN [sess EXCEPT ![client] = [status |-> "closed", subs |-> {}]]
               ELSE sess
    /\ connected' = FALSE
    /\ Log(t, [Top(t) EXCEPT !.pc = "done", !.ret = "ok"], "Info", TRUE)
    /\ UNCHANGED <<subscriptions, client, connectMu, logTopic, acks, upd, sm, mc, inp, shut, subFailed, callsLeft,
                   lostLeft, upLeft, msgsLeft, reader, desired, reAtt>>

\* Disconnect, all of it under connectMu; its log entry is file-only.
Disconnect(t) ==
    /\ At(t, {"Disconnect"}, "lock")
    /\ connectMu = NoOwner
    /\ IF IsConnected
       THEN /\ sess' = [sess EXCEPT ![client] = [status |-> "closed", subs |-> {}]]
            /\ connected' = FALSE
       ELSE UNCHANGED <<sess, connected>>
    /\ Log(t, [Top(t) EXCEPT !.pc = "done", !.ret = "ok"], "Info", TRUE)
    /\ UNCHANGED <<subscriptions, client, connectMu, logTopic, acks, upd, sm, mc, inp, shut, subFailed, callsLeft,
                   lostLeft, upLeft, msgsLeft, reader, desired, reAtt>>

\* ------------------------------------------------------------- transport
Waited(s) ==
    \E t \in Threads : At(t, ConnOps, "wait") /\ Top(t).s = s

\* The transport loses the connection and invokes the connection-lost handler.
ConnectionLost(s) ==
    /\ sess[s].status = "up"
    /\ lostLeft > 0
    /\ FreeAux # {}
    /\ lostLeft' = lostLeft - 1
    /\ sess' = [sess EXCEPT ![s] = [status |-> "down", subs |-> {}]]
    /\ stack' = Spawn(stack, HandlerFrame("ConnectionLost", s))
    /\ UNCHANGED <<subscriptions, client, connected, connectMu, isPublishing,
                   logTopic, acks, upd, sm, mc, inp, shut, subFailed, callsLeft, upLeft, msgsLeft, reader, desired, reAtt>>

\* The transport connects by itself (SetAutoReconnect, SetConnectRetry): a lost
\* session comes back, or a handshake nobody waits for any more succeeds.  The
\* entry the reconnecting handler logs before that is left out.
TransportConnects(s) ==
    /\ \/ sess[s].status = "down"
       \/ sess[s].status = "connecting" /\ ~Waited(s)
    /\ FreeAux # {}
    /\ upLeft > 0
    /\ upLeft' = upLeft - 1
    /\ sess' = [sess EXCEPT ![s].status = "up"]
    /\ stack' = Spawn(stack, HandlerFrame("OnConnect", s))
    /\ UNCHANGED <<subscriptions, client, connected, connectMu, isPublishing,
                   logTopic, acks, upd, sm, mc, inp, shut, subFailed, callsLeft, lostLeft, msgsLeft, reader, desired, reAtt>>

\* SetConnectionLostHandler: c.connected = false; c.Logger.Error(...)
ConnectionLostHandler(t) ==
    /\ At(t, {"ConnectionLost"}, "run")
    /\ connected' = FALSE
    /\ Log(t, [Top(t) EXCEPT !.pc = "done"], "Error", FALSE)
    /\ UNCHANGED <<subscriptions, client, connectMu, sess, logTopic, acks, upd, sm, mc, inp, shut, subFailed, callsLeft,
                   lostLeft, upLeft, msgsLeft, reader, desired, reAtt>>

\* SetOnConnectHandler: c.connected = true; c.Logger.Info(...); go c.resubscribeAll()
OnConnectHandler(t) ==
    /\ At(t, {"OnConnect"}, "run")
    /\ connected' = TRUE
    /\ Log(t, [Top(t) EXCEPT !.pc = "go"], "Info", FALSE)
    /\ UNCHANGED <<subscriptions, client, connectMu, sess, logTopic, acks, upd, sm, mc, inp, shut, subFailed, callsLeft,
                   lostLeft, upLeft, msgsLeft, reader, desired, reAtt>>

\* --------------------------------------------------------- resubscribeAll
\* a replay that finds nothing to do
ReplayTopicsNone(j, up) == {}

\* The topics resubscribeAll goes through: the journal as it reads it, nothing
\* when the journal is empty or the session is not connected.
ReplayTopics(j, up) == IF j = {} \/ ~up THEN {} ELSE j

ReplaySnapshot(t) ==
    /\ At(t, {"Replay"}, "snap")
    /\ LET topics == ReplayTopics(subscriptions, IsConnected) IN
       stack' = [stack EXCEPT ![t] = Settle(WithTop(@,
           [Top(t) EXCEPT !.snap = topics, !.todo = topics,
                          !.journal = IF IsConnected THEN subscriptions ELSE {},
                          !.pc = IF topics = {} THEN "done" ELSE "loop"]))]
    /\ UNCHANGED <<subscriptions, client, connected, connectMu, sess, isPublishing,
                   logTopic, acks, upd, sm, mc, inp, shut, subFailed, callsLeft, lostLeft, upLeft, msgsLeft, reader, desired, reAtt>>

\* a loop that does not advance past the topic it handled
ReplayRestStuck(todo, k) == todo

\* The topics left after the loop's body ran for topic k.
ReplayRest(todo, k) == todo \ {k}

\* One iteration of the loop: a subscribe attempt on c.client; a timeout or an
\* error is logged and the loop goes on.
ReplayAttempt(t) ==
    /\ At(t, {"Replay"}, "loop")
    /\ LET f == Top(t)
           up == IsConnected
       IN \E k \in f.todo, o \in Outcomes("Subscribe", up) :
          LET rest == ReplayRest(f.todo, k)
              g == [f EXCEPT !.todo = rest, !.cnt[k] = Bump(@),
                             !.pc = IF rest = {} THEN "done" ELSE "loop"]
          IN /\ sess' = IF up /\ o \in {"ok", "late"}
                        THEN [sess EXCEPT ![client].subs = @ \cup {k}]
                        ELSE sess
             /\ subFailed' = (subFailed \/ o # "ok")
             /\ reAtt' = IF up /\ f.s = client
                         THEN [reAtt EXCEPT ![k] = Bump(@)]
                         ELSE reAtt
             /\ IF o = "ok"
                THEN /\ stack' = [stack EXCEPT ![t] = Settle(WithTop(@, g))]
                     /\ UNCHANGED isPublishing
                ELSE Log(t, g, "Error", FALSE)
    /\ UNCHANGED <<subscriptions, client, connected, connectMu, logTopic, acks, upd, sm, mc, inp, shut, 
                   callsLeft, lostLeft, upLeft, msgsLeft, reader, desired>>

\* ---------------------------------------------------------- messageHandler
\* The transport delivers an inbound message: messageHandler is invoked.
Deliver ==
    /\ Idle(Reader)
    /\ reader.alive
    /\ msgsLeft > 0
    /\ \E s \in Slots : sess[s].status = "up"
    /\ msgsLeft' = msgsLeft - 1
    /\ reader' = [reader EXCEPT !.after = reader.panicked]
    /\ stack' = [stack EXCEPT ![Reader] = <<MsgFrame>>]
    /\ UNCHANGED <<subscriptions, client, connected, connectMu, sess, isPublishing,
                   logTopic, acks, upd, sm, mc, inp, shut, subFailed, callsLeft, lostLeft, upLeft, desired, reAtt>>

\* c.handler(mqttMsg) returns
HandlerReturns(t) ==
    /\ At(t, {"Msg"}, "handler")
    /\ stack' = [stack EXCEPT ![t] = <<>>]
    /\ UNCHANGED <<subscriptions, client, connected, connectMu, sess, isPublishing,
                   logTopic, acks, upd, sm, mc, inp, shut, subFailed, callsLeft, lostLeft, upLeft, msgsLeft, reader, desired, reAtt>>

\* a message callback without the deferred recover()
RecoversNot == FALSE

\* messageHandler's deferred function calls recover()
Recovers == TRUE

\* c.handler(mqttMsg) panics: the deferred function recovers and logs.
HandlerPanics(t) ==
    /\ At(t, {"Msg"}, "handler")
    /\ IF Recovers
       THEN /\ reader' = [reader EXCEPT !.panicked = TRUE]
            /\ Log(t, [Top(t) EXCEPT !.pc = "done"], "Error", FALSE)
       ELSE /\ reader' = [reader EXCEPT !.panicked = TRUE, !.alive = FALSE]
            /\ stack' = [stack EXCEPT ![t] = <<>>]
            /\ UNCHANGED isPublishing
    /\ UNCHANGED <<subscriptions, client, connected, connectMu, sess, logTopic, acks, upd, sm, mc, inp, shut, subFailed,
                   callsLeft, lostLeft, upLeft, msgsLeft, desired, reAtt>>

\* ------------------------------------------------------- update orchestrator
MaxUpdates == 1

RestartModes == {"restart_popen", "restart_exec", "env_schema_only", "no_restart"}

\* The value an update payload gives to the key COMPILED_FIRMWARE_LINK.
Links ==
    {[type |-> "absent", s |-> ""], [type |-> "null", s |-> ""],
     [type |-> "number", s |-> ""], [type |-> "string", s |-> ""],
     [type |-> "string", s |-> "http://x/fw"]}

\* The payloads of update messages: text that is no JSON object, or an object.
Payloads == {[json |-> FALSE, link |-> [type |-> "absent", s |-> ""]]}
            \cup {[json |-> TRUE, link |-> l] : l \in Links}

\* linkVal, ok := meta["COMPILED_FIRMWARE_LINK"]
HasLink(p) == p.link.type # "absent"

\* a link that is formatted as text instead of asserted to be a string
LinkStrFormatted(p) == IF p.link.type = "string" THEN p.link.s ELSE "<nil>"

\* linkStr, _ := linkVal.(string)
LinkStr(p) == IF p.link.type = "string" THEN p.link.s ELSE ""

mqttVars == <<subscriptions, client, connected, connectMu, sess, isPublishing,
              logTopic, acks, stack, callsLeft, lostLeft, upLeft, msgsLeft,
              reader, desired, reAtt>>

\* The orchestrator goes on at pc, having done what the events name.
Goes(pc, events) == [upd EXCEPT !.pc = pc, !.trace = @ \o events]

\* A step failed: the error is logged and handleUpdate returns.
Fails(events) == [Goes("done", events) EXCEPT !.err = TRUE]

\* handleUpdate up to the call of PerformUpdate
handleUpdate(p) ==
    /\ upd.pc \in {"idle", "done"}
    /\ upd.left > 0
    /\ LET u == [upd EXCEPT !.left = @ - 1, !.p = p, !.trace = <<>>, !.err = FALSE] IN
       upd' = IF ~u.enableREST THEN [u EXCEPT !.pc = "done"]
              ELSE IF u.custom
                   THEN [u EXCEPT !.pc = "done", !.trace = <<"customUpdateHandler">>]
              ELSE IF ~p.json THEN [u EXCEPT !.pc = "done", !.err = TRUE]
              ELSE IF HasLink(p) THEN [u EXCEPT !.pc = "PerformUpdate"]
              ELSE [u EXCEPT !.pc = "done"]
    /\ UNCHANGED <<mqttVars, sm, mc, inp, shut, subFailed>>

\* PerformUpdate up to the call of DownloadUpdate
PerformUpdate ==
    /\ upd.pc = "PerformUpdate"
    /\ \E uuid \in BOOLEAN :
          upd' = IF ~upd.enableMQTT \/ ~upd.enableREST \/ ~uuid
                 THEN Fails(<<>>)
                 ELSE Goes("DownloadUpdate", <<>>)
    /\ UNCHANGED <<mqttVars, sm, mc, inp, shut, subFailed>>

\* DownloadUpdate: the archive with the environment and the schema
DownloadUpdate ==
    /\ upd.pc = "DownloadUpdate"
    /\ \E ok \in BOOLEAN :
          upd' = IF ok
                 THEN [Goes("ExtractTarGz", <<"DownloadUpdate">>) EXCEPT !.archive = TRUE]
                 ELSE Fails(<<"DownloadUpdate">>)
    /\ UNCHANGED <<mqttVars, sm, mc, inp, shut, subFailed>>

\* an extraction that unpacks into the program directory instead of a
\* temporary one: a failure leaves the files it had already written
ExtractTarGzInPlace ==
    /\ upd.pc = "ExtractTarGz"
    /\ \E o \in {"ok", "extract"} :
          upd' = IF o = "ok"
                 THEN [Goes("LoadFromFile", <<"ExtractTarGz">>)
                          EXCEPT !.envFile = "new", !.schemaFile = "new"]
                 ELSE [Fails(<<"ExtractTarGz">>) EXCEPT !.envFile = "new"]
    /\ UNCHANGED <<mqttVars, sm, mc, inp, shut, subFailed>>

\* UpdateDeviceProgram: os.MkdirTemp, ExtractTarGz and the walk that finds the
\* environment and schema files of the archive
ExtractTarGz ==
    /\ upd.pc = "ExtractTarGz"
    /\ \E o \in {"ok", "mkdir", "extract", "walk"}, found \in SUBSET {"env", "schema"} :
          upd' = IF o = "ok"
                 THEN [Goes("CopyFile", <<"ExtractTarGz">>) EXCEPT !.found = found]
                 ELSE IF o = "mkdir" THEN Fails(<<>>)
                 ELSE Fails(<<"ExtractTarGz">>)
    /\ UNCHANGED <<mqttVars, sm, mc, inp, shut, subFailed>>

\* UpdateDeviceProgram: fm.CopyFile of the environment file, then of the schema file
CopyFile ==
    /\ upd.pc = "CopyFile"
    /\ \E o \in {"ok"} \cup {k \in {"env", "schema"} : k \in upd.found} :
          LET env == IF "env" \in upd.found /\ o # "env" THEN "new" ELSE upd.envFile
              schema == IF "schema" \in upd.found /\ o = "ok" THEN "new"
                        ELSE upd.schemaFile
              u == IF o = "ok" THEN Goes("LoadFromFile", <<>>) ELSE Fails(<<>>)
          IN upd' = [u EXCEPT !.envFile = env, !.schemaFile = schema]
    /\ UNCHANGED <<mqttVars, sm, mc, inp, shut, subFailed>>

\* updateEnvSchemaOnly: c.settings.LoadFromFile()
LoadFromFile ==
    /\ upd.pc = "LoadFromFile"
    /\ \E ok \in BOOLEAN :
          upd' = IF ok
                 THEN [Goes("UpdateFromFile", <<"LoadFromFile">>)
                          EXCEPT !.settings = upd.envFile]
                 ELSE Fails(<<"LoadFromFile">>)
    /\ UNCHANGED <<mqttVars, sm, mc, inp, shut, subFailed>>

\* a reload of the schema whose error is not looked at
UpdateFromFileUnchecked ==
    /\ upd.pc = "UpdateFromFile"
    /\ \E ok \in BOOLEAN :
          upd' = [Goes("SubscribeAllSchemaTopics", <<"UpdateFromFile">>)
                    EXCEPT !.schema = IF ok THEN upd.schemaFile ELSE @]
    /\ UNCHANGED <<mqttVars, sm, mc, inp, shut, subFailed>>

\* updateEnvSchemaOnly: c.schema.UpdateFromFile()
UpdateFromFile ==
    /\ upd.pc = "UpdateFromFile"
    /\ \E ok \in BOOLEAN :
          upd' = IF ok
                 THEN [Goes("SubscribeAllSchemaTopics", <<"UpdateFromFile">>)
                          EXCEPT !.schema = upd.schemaFile]
                 ELSE Fails(<<"UpdateFromFile">>)
    /\ UNCHANGED <<mqttVars, sm, mc, inp, shut, subFailed>>

\* updateEnvSchemaOnly: c.SubscribeAllSchemaTopics(ctx), when MQTT is enabled
SubscribeAllSchemaTopics ==
    /\ upd.pc = "SubscribeAllSchemaTopics"
    /\ \E ok \in BOOLEAN :
          upd' = IF ~upd.enableMQTT THEN Goes("Remove", <<>>)
                 ELSE IF ok THEN Goes("Remove", <<"SubscribeTopics">>)
                 ELSE Fails(<<"SubscribeTopics">>)
    /\ UNCHANGED <<mqttVars, sm, mc, inp, shut, subFailed>>

\* PerformUpdate: os.Remove(archivePath) and return nil; handleUpdate: the test
\* of linkStr
RemoveArchive ==
    /\ upd.pc = "Remove"
    /\ \E ok \in BOOLEAN :
          upd' = [Goes(IF LinkStr(upd.p) # "" THEN "DownloadFileFromURL" ELSE "done",
                       <<>>)
                    EXCEPT !.archive = ~ok]
    /\ UNCHANGED <<mqttVars, sm, mc, inp, shut, subFailed>>

\* UpdateBinaryFromURL: os.Executable() and the download to executable + ".new"
DownloadFileFromURL ==
    /\ upd.pc = "DownloadFileFromURL"
    /\ \E o \in {"ok", "executable", "download"} :
          upd' = IF o = "ok"
                 THEN [Goes("Chmod", <<"DownloadFileFromURL">>) EXCEPT !.staged = TRUE]
                 ELSE IF o = "executable" THEN Fails(<<>>)
                 ELSE Fails(<<"DownloadFileFromURL">>)
    /\ UNCHANGED <<mqttVars, sm, mc, inp, shut, subFailed>>

\* UpdateBinaryFromURL: os.Chmod(tempPath, 0755)
Chmod ==
    /\ upd.pc = "Chmod"
    /\ \E ok \in BOOLEAN :
          upd' = IF ok THEN Goes("Rename", <<>>) ELSE Fails(<<>>)
    /\ UNCHANGED <<mqttVars, sm, mc, inp, shut, subFailed>>

\* UpdateBinaryFromURL: os.Rename(tempPath, executable)
Rename ==
    /\ upd.pc = "Rename"
    /\ \E ok \in BOOLEAN :
          upd' = IF ok
                 THEN [Goes("restart", <<"Rename">>)
                          EXCEPT !.binary = "new", !.staged = FALSE]
                 ELSE Goes("RemoveExecutable", <<>>)
    /\ UNCHANGED <<mqttVars, sm, mc, inp, shut, subFailed>>

\* UpdateBinaryFromURL: _ = os.Remove(executable), after the rename failed
RemoveExecutable ==
    /\ upd.pc = "RemoveExecutable"
    /\ \E ok \in BOOLEAN :
          upd' = [Goes("Rename2", <<>>)
                    EXCEPT !.binary = IF ok THEN "missing" ELSE upd.binary]
    /\ UNCHANGED <<mqttVars, sm, mc, inp, shut, subFailed>>

\* UpdateBinaryFromURL: the second os.Rename(tempPath, executable)
Rename2 ==
    /\ upd.pc = "Rename2"
    /\ \E ok \in BOOLEAN :
          upd' = IF ok
                 THEN [Goes("restart", <<"Rename">>)
                          EXCEPT !.binary = "new", !.staged = FALSE]
                 ELSE Fails(<<>>)
    /\ UNCHANGED <<mqttVars, sm, mc, inp, shut, subFailed>>

\* a switch in which no_restart falls into the restart branch
RestartsUnlessSchemaOnly(mode) == mode # "env_schema_only"

\* handleUpdate: switch c.restartMode
Restarts(mode) == mode \in {"restart_popen", "restart_exec"}

\* StopMainCycle, called by the restart modes; the other modes return
StopMainCycle ==
    /\ upd.pc = "restart"
    /\ upd' = IF Restarts(upd.restartMode)
              THEN [Goes(upd.restartMode, <<"StopMainCycle">>) EXCEPT !.running = FALSE]
              ELSE Goes("done", <<>>)
    /\ UNCHANGED <<mqttVars, sm, mc, inp, shut, subFailed>>

\* restart_popen: os.Executable(), cmd.Start() and os.Exit(0)
StartProcess ==
    /\ upd.pc = "restart_popen"
    /\ \E o \in {"ok", "executable", "start"} :
          upd' = IF o = "ok" THEN Goes("exited", <<"Start", "Exit">>)
                 ELSE IF o = "executable" THEN Fails(<<>>)
                 ELSE Fails(<<"Start">>)
    /\ UNCHANGED <<mqttVars, sm, mc, inp, shut, subFailed>>

\* restart_exec: os.Executable() and syscall.Exec()
Exec ==
    /\ upd.pc = "restart_exec"
    /\ \E o \in {"ok", "executable", "exec"} :
          upd' = IF o = "ok" THEN Goes("replaced", <<"Exec">>)
                 ELSE IF o = "executable" THEN Fails(<<>>)
                 ELSE Fails(<<"Exec">>)
    /\ UNCHANGED <<mqttVars, sm, mc, inp, shut, subFailed>>

\* The orchestrators explored: every restart mode, REST and MQTT enabled or
\* not, with or without a custom update handler; the main cycle runs.
Orchestrators ==
    {[pc |-> "idle", left |-> MaxUpdates, p |-> [json |-> FALSE, link |-> [type |-> "absent", s |-> ""]],
      restartMode |-> m, enableREST |-> r, enableMQTT |-> q, custom |-> h,
      running |-> TRUE, envFile |-> "old", schemaFile |-> "old",
      settings |-> "old", schema |-> "old", binary |-> "old", staged |-> FALSE,
      archive |-> FALSE, found |-> {}, err |-> FALSE, trace |-> <<>>] :
        m \in RestartModes, r \in BOOLEAN, q \in BOOLEAN, h \in BOOLEAN}

\* The orchestrator of the specifications that are about the MQTT client: it
\* gets no update message.
NoUpdates ==
    [pc |-> "idle", left |-> 0, p |-> [json |-> FALSE, link |-> [type |-> "absent", s |-> ""]],
     restartMode |-> "restart_exec", enableREST |-> TRUE, enableMQTT |-> TRUE,
     custom |-> FALSE, running |-> TRUE, envFile |-> "old", schemaFile |-> "old",
     settings |-> "old", schema |-> "old", binary |-> "old", staged |-> FALSE,
     archive |-> FALSE, found |-> {}, err |-> FALSE, trace |-> <<>>]

\* ----------------------------------------------------------- schema manager
MaxLookups == 1
MaxReloads == 1

\* Text is a sequence of characters; U1 is "a/1/p", U2 is "a/2/p", U12 is "a/1"
\* and U3 is "a", a topic of one segment.
U1 == <<"a", "/", "1", "/", "p">>
U2 == <<"a", "/", "2", "/", "p">>
U12 == <<"a", "/", "1">>
U3 == <<"a">>

\* An element of a topic list of the JSON: a string, or the number 5, which
\* fmt.Sprintf("%v") turns into "5".
Str(s) == [str |-> TRUE, s |-> s]
Num == [str |-> FALSE, s |-> <<"5">>]

\* The logical names (keys of a category) and the topic lists explored.
Names == {"", "x", "y"}
Lists == {{Str(U1)}, {Str(U2)}, {Str(U3), Num}}

\* A category of the schema is a JSON object: a set of <<name, list>> with
\* distinct names.  A category that is missing or is no object reads as {}.
TopicSections ==
    {{}} \cup {{<<n, l>>} : n \in Names, l \in Lists}
         \cup {{<<"x", {Str(U1)}>>, <<"y", {Str(U1), Str(U12)}>>},
               {<<"", {Str(U1)}>>, <<"x", {Str(U1)}>>}}
InputBaseSections == {{}, {<<"update/pepeunit", {Str(U1)}>>}}
OutputBaseSections == {{}, {<<"state/pepeunit", {Str(U2)}>>}}

Schemas ==
    [input_base_topic : InputBaseSections, output_base_topic : OutputBaseSections,
     input_topic : TopicSections, output_topic : TopicSections]

\* The schemas that replace the loaded one.
Reloads ==
    {[input_base_topic |-> b, output_base_topic |-> {}, input_topic |-> i,
      output_topic |-> o] :
        b \in InputBaseSections,
        i \in {{}, {<<"x", {Str(U1)}>>}},
        o \in {{}, {<<"y", {Str(U2)}>>}}}

\* The values searched for: "", "1", "2", "3", "5", "a/1/p" and "a".
Values == {<<>>, <<"1">>, <<"2">>, <<"3">>, <<"5">>, U1, U3}
SearchTopicTypes == {"unit_node_uuid", "full_name"}
SearchScopes == {"all", "input", "output"}

\* strings.Split(s, "/")
RECURSIVE Split(_)
Split(s) ==
    IF \A i \in 1..Len(s) : s[i] # "/" THEN <<s>>
    ELSE LET i == CHOOSE k \in 1..Len(s) :
                      s[k] = "/" /\ \A j \in 1..(k - 1) : s[j] # "/"
         IN <<SubSeq(s, 1, i - 1)>> \o Split(SubSeq(s, i + 1, Len(s)))

\* an extraction that takes the first segment
extractFirstSegment(topicURL) == Split(topicURL)[1]

\* extractUUIDFromTopic: parts[1] when there are two parts or more, else ""
extractUUIDFromTopic(topicURL) ==
    LET parts == Split(topicURL) IN IF Len(parts) >= 2 THEN parts[2] ELSE <<>>

\* a scope in which input also selects the input base category
getSectionsByScopeWithBase(searchScope) ==
    CASE searchScope = "all" -> <<"input_topic", "output_topic">>
      [] searchScope = "input" -> <<"input_base_topic", "input_topic">>
      [] searchScope = "output" -> <<"output_topic">>
      [] OTHER -> <<>>

\* getSectionsByScope
getSectionsByScope(searchScope) ==
    CASE searchScope = "all" -> <<"input_topic", "output_topic">>
      [] searchScope = "input" -> <<"input_topic">>
      [] searchScope = "output" -> <<"output_topic">>
      [] OTHER -> <<>>

\* What a search of one category may return: the range over the map visits the
\* names in any order and returns the first whose list has a string that
\* matches; "" when there is none.
FirstHit(hits) == IF hits = {} THEN {""} ELSE hits

\* searchUUIDInTopicSection
searchUUIDInTopicSection(section, uuid) ==
    FirstHit({e[1] : e \in {x \in section :
                 \E el \in x[2] : el.str /\ extractUUIDFromTopic(el.s) = uuid}})

\* searchTopicNameInSection
searchTopicNameInSection(section, topicName) ==
    FirstHit({e[1] : e \in {x \in section :
                 \E el \in x[2] : el.str /\ el.s = topicName}})

\* a flattening that keeps only the elements that are strings
GetTopicsOfStrings(section) ==
    UNION {{el.s : el \in {x \in e[2] : x.str}} : e \in section}

\* GetInputBaseTopic, GetInputTopic, flattened as SubscribeAllSchemaTopics
\* does: the elements of every list, each formatted as text
GetTopics(section) == UNION {{el.s : el \in e[2]} : e \in section}

\* The goroutine that reads the schema.  topics: the list handed to
\* SubscribeTopics (passed says it was), or the <<category, topic>> still to be
\* published; sent, failed, n: the publishes made, those that failed, their
\* number; ret: what the call returned.
IdleReader ==
    [op |-> "none", pc |-> "done", v |-> <<>>, type |-> "full_name", scope |-> "all",
     todo |-> <<>>, obs |-> {}, err |-> FALSE, name |-> "", topics |-> {},
     passed |-> FALSE, key |-> "", sent |-> {}, failed |-> {}, n |-> 0,
     ret |-> "none"]

\* A lookup or an enumeration ends.
Found(rd, name) == [rd EXCEPT !.pc = "done", !.name = name]
NotFound(rd) == [rd EXCEPT !.pc = "done", !.err = TRUE]

\* FindTopicByUnitNode is called: getSectionsByScope
FindTopicByUnitNode(v, type, scope) ==
    /\ sm.rd.pc = "done"
    /\ sm.lookups > 0
    /\ LET rd == [IdleReader EXCEPT !.op = "FindTopicByUnitNode", !.pc = "search",
                                    !.v = v, !.type = type, !.scope = scope,
                                    !.todo = getSectionsByScope(scope)]
       IN sm' = [sm EXCEPT !.lookups = @ - 1,
                           !.rd = IF rd.todo = <<>> THEN NotFound(rd) ELSE rd]
    /\ UNCHANGED <<mqttVars, upd, mc, inp, shut, subFailed>>

\* FindTopicByUnitNode: one round of the loop over the sections, which reads
\* sm.schemaData[section]; after the last section, "topic not found"
SearchSection ==
    /\ sm.rd.op = "FindTopicByUnitNode"
    /\ sm.rd.pc = "search"
    /\ LET section == sm.schemaData[Head(sm.rd.todo)]
           rd == [sm.rd EXCEPT !.todo = Tail(@),
                               !.obs = @ \cup {<<Head(sm.rd.todo), section>>}]
       IN \E result \in CASE rd.type = "unit_node_uuid" ->
                               searchUUIDInTopicSection(section, rd.v)
                          [] rd.type = "full_name" ->
                               searchTopicNameInSection(section, rd.v)
                          [] OTHER -> {""} :
             sm' = [sm EXCEPT !.rd = IF result # "" THEN Found(rd, result)
                                     ELSE IF rd.todo = <<>> THEN NotFound(rd)
                                     ELSE rd]
    /\ UNCHANGED <<mqttVars, upd, mc, inp, shut, subFailed>>

\* SubscribeAllSchemaTopics up to its first read: the error when MQTT is not
\* enabled, else c.schema.GetInputBaseTopic()
GetInputBaseTopic ==
    /\ sm.rd.pc = "done"
    /\ sm.lookups > 0
    /\ LET section == sm.schemaData["input_base_topic"]
           rd == [IdleReader EXCEPT !.op = "SubscribeAllSchemaTopics"]
       IN sm' = [sm EXCEPT !.lookups = @ - 1,
                           !.rd = IF ~upd.enableMQTT
                                  THEN [rd EXCEPT !.pc = "done", !.ret = "err"]
                                  ELSE [rd EXCEPT !.pc = "input",
                                                  !.obs = {<<"input_base_topic", section>>},
                                                  !.topics = GetTopics(section)]]
    /\ UNCHANGED <<mqttVars, upd, mc, inp, shut, subFailed>>

\* SubscribeAllSchemaTopics: c.schema.GetInputTopic(); the list then goes to
\* c.mqttClient.SubscribeTopics, which adds every topic of it to the journal
\* before it sends anything, and whose result is returned
GetInputTopic ==
    /\ sm.rd.op = "SubscribeAllSchemaTopics"
    /\ sm.rd.pc = "input"
    /\ LET section == sm.schemaData["input_topic"] IN
       /\ \E ret \in {"nil", "err"} :
             sm' = [sm EXCEPT !.rd = [@ EXCEPT !.pc = "done",
                                               !.obs = @ \cup {<<"input_topic", section>>},
                                               !.topics = @ \cup GetTopics(section),
                                               !.passed = TRUE,
                                               !.ret = ret]]
       /\ subscriptions' = subscriptions \cup sm.rd.topics \cup GetTopics(section)
    /\ UNCHANGED <<client, connected, connectMu, sess, isPublishing, logTopic, acks,
                   stack, callsLeft, lostLeft, upLeft, msgsLeft, reader, desired,
                   reAtt, upd, mc, inp, shut, subFailed>>

\* The keys PublishToTopics is called with.
TopicKeys == {"x", "y", "state/pepeunit"}

\* outputTopic[topicKey]: the topics listed under the key, with their category
TopicsOfKey(category, section, key) ==
    {<<category, el.s>> : el \in UNION {e[2] : e \in {x \in section : x[1] = key}}}

\* PublishToTopics up to its first read: the error when MQTT is not enabled,
\* else c.schema.GetOutputTopic() and the list under the key
GetOutputTopic(key) ==
    /\ sm.rd.pc = "done"
    /\ sm.lookups > 0
    /\ LET section == sm.schemaData["output_topic"]
           rd == [IdleReader EXCEPT !.op = "PublishToTopics", !.key = key]
       IN sm' = [sm EXCEPT !.lookups = @ - 1,
                           !.rd = IF ~upd.enableMQTT
                                  THEN [rd EXCEPT !.pc = "done", !.ret = "err"]
                                  ELSE [rd EXCEPT !.pc = "outputBase",
                                                  !.obs = {<<"output_topic", section>>},
                                                  !.topics = TopicsOfKey("output_topic",
                                                                         section, key)]]
    /\ UNCHANGED <<mqttVars, upd, mc, inp, shut, subFailed>>

\* What PublishToTopics returns after the loop: nil
PublishToTopicsReturns(failed) == "nil"

\* The loop of PublishToTopics is over when no topic is left.
AfterPublish(rd) ==
    IF rd.topics = {}
    THEN [rd EXCEPT !.pc = "done", !.ret = PublishToTopicsReturns(rd.failed)]
    ELSE [rd EXCEPT !.pc = "publish"]

\* PublishToTopics: c.schema.GetOutputBaseTopic() and the list under the key
GetOutputBaseTopic ==
    /\ sm.rd.op = "PublishToTopics"
    /\ sm.rd.pc = "outputBase"
    /\ LET section == sm.schemaData["output_base_topic"] IN
       sm' = [sm EXCEPT !.rd = AfterPublish(
                 [@ EXCEPT !.obs = @ \cup {<<"output_base_topic", section>>},
                           !.topics = @ \cup TopicsOfKey("output_base_topic", section,
                                                         sm.rd.key)])]
    /\ UNCHANGED <<mqttVars, upd, mc, inp, shut, subFailed>>

\* a loop that ends at the first publish that fails
TopicsLeftUntilError(topics, k, ok) == IF ok THEN topics \ {k} ELSE {}

\* The topics the loop still has to publish to after the publish to k: the
\* error is logged and the loop goes on.
TopicsLeft(topics, k, ok) == topics \ {k}

\* PublishToTopics: one round of the loop, c.mqttClient.Publish(topic, message)
\* with its result
PublishToTopic ==
    /\ sm.rd.op = "PublishToTopics"
    /\ sm.rd.pc = "publish"
    /\ \E k \in sm.rd.topics, ok \in BOOLEAN :
          sm' = [sm EXCEPT !.rd = AfterPublish(
                    [@ EXCEPT !.topics = TopicsLeft(@, k, ok),
                              !.sent = @ \cup {k},
                              !.n = @ + 1,
                              !.failed = IF ok THEN @ ELSE @ \cup {k}])]
    /\ UNCHANGED <<mqttVars, upd, mc, inp, shut, subFailed>>

\* UpdateSchema: sm.schemaData = schemaDict, then fm.WriteJSON, which may fail
UpdateSchema(schemaDict) ==
    /\ sm.reloads > 0
    /\ \E ok \in BOOLEAN :
          sm' = [sm EXCEPT !.reloads = @ - 1,
                           !.schemaData = schemaDict,
                           !.hist = @ \cup {schemaDict},
                           !.file = IF ok THEN schemaDict ELSE @]
    /\ UNCHANGED <<mqttVars, upd, mc, inp, shut, subFailed>>

\* UpdateDeviceProgram: fm.CopyFile(foundSchema, c.schemaFilePath)
CopySchemaFile(schemaDict) ==
    /\ sm.reloads > 0
    /\ sm' = [sm EXCEPT !.reloads = @ - 1, !.file = schemaDict]
    /\ UNCHANGED <<mqttVars, upd, mc, inp, shut, subFailed>>

\* UpdateFromFile, that is loadSchema: fm.ReadJSON, which may fail, and
\* sm.schemaData = schemaData
loadSchema ==
    /\ \E ok \in BOOLEAN :
          sm' = IF ok THEN [sm EXCEPT !.schemaData = sm.file, !.hist = @ \cup {sm.file}]
                ELSE sm
    /\ UNCHANGED <<mqttVars, upd, mc, inp, shut, subFailed>>

\* NewSchemaManager: the schema is the one of the file.
NewSchemaManager(d, lookups, reloads) ==
    [schemaData |-> d, file |-> d, hist |-> {d}, rd |-> IdleReader,
     lookups |-> lookups, reloads |-> reloads]

\* Schemas that list a key in both output categories.
PublishSchemas ==
    {[input_base_topic |-> {}, output_base_topic |-> b, input_topic |-> {},
      output_topic |-> o] :
        b \in {{<<"x", {Str(U2)}>>}, {<<"x", {Str(U1), Num}>>}},
        o \in {{<<"x", {Str(U1)}>>, <<"y", {Str(U3)}>>}}}

\* The schema managers explored: any schema and no reload, or one of a few
\* schemas that is then replaced.
SchemaManagers ==
    {NewSchemaManager(d, MaxLookups, 0) : d \in Schemas \cup PublishSchemas}
    \cup {NewSchemaManager(d, MaxLookups, MaxReloads) : d \in Reloads}

\* The clients of the schema manager: MQTT enabled, or a client without MQTT
\* whose schema is not replaced.
SchemaClients ==
    {<<NoUpdates, m>> : m \in SchemaManagers}
    \cup {<<[NoUpdates EXCEPT !.enableMQTT = FALSE], NewSchemaManager(d, MaxLookups, 0)>> :
             d \in Reloads \cup PublishSchemas}

\* The schema manager of the specifications that are about the MQTT client
\* and the update cycle: nobody calls it.
NoSchema ==
    NewSchemaManager([input_base_topic |-> {}, output_base_topic |-> {},
                      input_topic |-> {}, output_topic |-> {}], 0, 0)

\* --------------------------------------------------------------- main cycle
MaxTicks == 3

\* STATE_SEND_INTERVAL; a time unit is the period of the ticker (cycleSpeed).
Intervals == {0, 2}

\* The zero time.Time of a lastStateSend that was never set: further in the
\* past than any interval.
ZeroTime == 0 - 2

\* outputBaseTopic["state/pepeunit"], as GetOutputBaseTopic returns it
StateTopics(section) == UNION {e[2] : e \in {x \in section : x[1] = "state/pepeunit"}}

\* currentTime.Sub(c.lastStateSend) >= STATE_SEND_INTERVAL seconds
shouldSend(currentTime, lastStateSend, interval) == currentTime - lastStateSend >= interval

\* select { case <-ctx.Done(): ... case <-ticker.C: ... }: one of the cases that
\* can proceed is chosen, whichever it is; the select blocks when none can.
Select(ctxDone, tickReady) ==
    (IF ctxDone THEN {"ctx.Done"} ELSE {}) \cup (IF tickReady THEN {"ticker.C"} ELSE {})

\* RunMainCycle up to the loop: c.running = true, the ticker is created
RunMainCycle ==
    /\ mc.pc = "idle"
    /\ mc' = [mc EXCEPT !.pc = "select"]
    /\ upd' = [upd EXCEPT !.running = TRUE]
    /\ UNCHANGED <<mqttVars, sm, inp, shut, subFailed>>

\* The ticker fires after another period: the tick waits in ticker.C, which
\* holds one tick.
TickerFires ==
    /\ mc.pc \notin {"idle", "returned"}
    /\ mc.now < MaxTicks
    /\ mc' = [mc EXCEPT !.now = @ + 1, !.tickReady = TRUE]
    /\ UNCHANGED <<mqttVars, sm, upd, inp, shut, subFailed>>

\* The context passed to RunMainCycle is cancelled.
Cancel ==
    /\ mc.pc \notin {"idle", "returned"}
    /\ ~mc.ctxDone
    /\ mc' = [mc EXCEPT !.ctxDone = TRUE]
    /\ UNCHANGED <<mqttVars, sm, upd, inp, shut, subFailed>>

\* StopMainCycle, called by the output handler or by another goroutine while
\* the cycle runs
CallStopMainCycle ==
    /\ mc.pc \notin {"idle", "returned"}
    /\ upd.running
    /\ upd' = [upd EXCEPT !.running = FALSE]
    /\ mc' = [mc EXCEPT !.stopped = TRUE]
    /\ UNCHANGED <<mqttVars, sm, inp, shut, subFailed>>

\* The select of the loop.  ctx.Done: the entry is logged, RunMainCycle returns
\* and its deferred function clears c.running.  late (history): the context was
\* already cancelled when the select took the tick.
SelectCase ==
    /\ mc.pc = "select"
    /\ \E case \in Select(mc.ctxDone, mc.tickReady) :
          IF case = "ctx.Done"
          THEN /\ mc' = [mc EXCEPT !.pc = "returned"]
               /\ upd' = [upd EXCEPT !.running = FALSE]
          ELSE /\ mc' = [mc EXCEPT !.pc = "tick", !.tickReady = FALSE,
                                   !.late = mc.ctxDone]
               /\ UNCHANGED upd
    /\ UNCHANGED <<mqttVars, sm, inp, shut, subFailed>>

\* case <-ticker.C: if !c.isRunning() { return }; the deferred function clears
\* c.running, which is false already.
isRunning ==
    /\ mc.pc = "tick"
    /\ mc' = [mc EXCEPT !.pc = IF upd.running THEN "base" ELSE "returned",
                        !.ticks = IF upd.running THEN @ + 1 ELSE @]
    /\ UNCHANGED upd
    /\ UNCHANGED <<mqttVars, sm, inp, shut, subFailed>>

\* What the tick does after the housekeeping step: the output handler, if
\* there is one.
AfterBase(m) == [m EXCEPT !.pc = IF m.outputHandler THEN "output" ELSE "select"]

\* baseMQTTOutputHandler up to the call of Publish: the state is published when
\* the schema lists a state topic, the interval has elapsed and there is an
\* MQTT client.  The state data are numbers and a string: json.Marshal does not
\* fail on them.
baseMQTTOutputHandler ==
    /\ mc.pc = "base"
    /\ LET m == [mc EXCEPT !.currentTime = mc.now]
           topics == StateTopics(sm.schemaData["output_base_topic"])
       IN mc' = IF /\ topics # {}
                   /\ shouldSend(m.currentTime, m.lastStateSend, m.interval)
                   /\ upd.enableMQTT
                THEN [m EXCEPT !.pc = "publish"]
                ELSE AfterBase(m)
    /\ UNCHANGED <<mqttVars, sm, upd, inp, shut, subFailed>>

\* a housekeeping step that notes the time of every publish it tried
AfterStatePublishAlways(currentTime, lastStateSend, ok) == currentTime

\* c.lastStateSend after c.mqttClient.Publish returned: currentTime when err is
\* nil, unchanged (the error is logged) otherwise
AfterStatePublish(currentTime, lastStateSend, ok) ==
    IF ok THEN currentTime ELSE lastStateSend

\* baseMQTTOutputHandler: c.mqttClient.Publish(topics[0], stateJSON) returns.
\* lastOk (history): the time of the last tick whose state publish succeeded.
PublishState ==
    /\ mc.pc = "publish"
    /\ \E ok \in BOOLEAN :
          mc' = [AfterBase(mc) EXCEPT
                    !.lastStateSend = AfterStatePublish(mc.currentTime, @, ok),
                    !.lastOk = IF ok THEN mc.currentTime ELSE @,
                    !.failed = ~ok]
    /\ UNCHANGED <<mqttVars, sm, upd, inp, shut, subFailed>>

\* c.outputHandler(c) returns; the loop goes back to the select.
outputHandler ==
    /\ mc.pc = "output"
    /\ mc' = [mc EXCEPT !.pc = "select", !.outputs = @ + 1]
    /\ UNCHANGED <<mqttVars, sm, upd, inp, shut, subFailed>>

\* NewPepeunitClient: the cycle has not started.  ticks, outputs (history): the
\* ticks whose steps started, the calls of the output handler.
NewCycle(interval, handler) ==
    [pc |-> "idle", ctxDone |-> FALSE, tickReady |-> FALSE, now |-> 0,
     currentTime |-> 0, lastStateSend |-> ZeroTime, lastOk |-> ZeroTime,
     interval |-> interval, outputHandler |-> handler, late |-> FALSE,
     stopped |-> FALSE, failed |-> FALSE, ticks |-> 0, outputs |-> 0]

Cycles == {NewCycle(i, h) : i \in Intervals, h \in BOOLEAN}

\* The main cycle of the specifications that are not about it: nobody runs it.
NoCycle == NewCycle(0, FALSE)

\* The schemas of the main cycle: no state topic, a key with an empty list, one
\* state topic.
CycleSchemas ==
    {[input_base_topic |-> {}, output_base_topic |-> b, input_topic |-> {},
      output_topic |-> {}] :
        b \in {{}, {<<"state/pepeunit", {}>>}, {<<"state/pepeunit", {Str(U2)}>>}}}

\* ------------------------------------------------------------ input handlers
\* The topics of the messages that arrive: "a/1/p", "a/2/p", "a/1" and "5".
MsgTopics == {U1, U2, U12, <<"5">>}

\* The input-base categories of the clients that get messages: none, the update
\* topic alone or with another base topic, a topic listed under two names, a
\* name that is no base topic.
InputSections ==
    {{},
     {<<"update/pepeunit", {Str(U1)}>>},
     {<<"update/pepeunit", {Str(U1), Num}>>, <<"env_update/pepeunit", {Str(U2)}>>},
     {<<"update/pepeunit", {Str(U1)}>>, <<"schema_update/pepeunit", {Str(U1)}>>},
     {<<"x", {Str(U1)}>>}}

InputSchemas ==
    {[input_base_topic |-> b, output_base_topic |-> {}, input_topic |-> {},
      output_topic |-> {}] : b \in InputSections}

\* NewPepeunitClient: no input handler, and the MQTT client has no handler.
\* handler: the MQTT client's handler is the combined one; inputHandler:
\* c.inputHandler is not nil; set, base, user, mark (history): SetMQTTInputHandler
\* was called, the runs of the base handling and of the user handler for the
\* message in hand, the update messages left when the switch chose handleUpdate.
NoInput ==
    [handler |-> FALSE, inputHandler |-> FALSE, set |-> FALSE, pc |-> "idle",
     topic |-> <<>>, key |-> "", base |-> 0, user |-> 0, mark |-> 0]

\* SetMQTTInputHandler: c.inputHandler = handler; the combined handler is
\* installed when there is an MQTT client
SetMQTTInputHandler(handler) ==
    /\ ~inp.set
    /\ inp.pc = "idle"
    /\ inp' = [inp EXCEPT !.set = TRUE,
                          !.inputHandler = handler,
                          !.handler = IF upd.enableMQTT THEN TRUE ELSE @]
    /\ UNCHANGED <<mqttVars, upd, sm, mc, shut, subFailed>>

\* messageHandler: if c.handler != nil { c.handler(mqttMsg) }, for a message
\* that arrives while the process runs and no other message is handled
messageHandler(topic) ==
    /\ inp.pc = "idle"
    /\ upd.enableMQTT
    /\ upd.pc \in {"idle", "done"}
    /\ msgsLeft > 0
    /\ msgsLeft' = msgsLeft - 1
    /\ inp' = [inp EXCEPT !.pc = IF inp.handler THEN "base" ELSE "idle",
                          !.topic = topic, !.key = "", !.base = 0, !.user = 0]
    /\ UNCHANGED <<subscriptions, client, connected, connectMu, sess, isPublishing,
                   logTopic, acks, upd, sm, mc, shut, subFailed, stack, callsLeft, lostLeft,
                   upLeft, reader, desired, reAtt>>

\* a comparison of the unit-node segments instead of the topics
MatchesUnitNode(topic, topicURL) ==
    extractUUIDFromTopic(topic) = extractUUIDFromTopic(topicURL)

\* baseMQTTInputFunc: if topic == topicURL
Matches(topic, topicURL) == topic = topicURL

\* baseMQTTInputFunc: what the switch on topicKey calls
BaseHandler(topicKey) ==
    CASE topicKey = "update/pepeunit" -> "handleUpdate"
      [] topicKey \in {"env_update/pepeunit", "schema_update/pepeunit",
                       "log_sync/pepeunit"} -> "other"
      [] OTHER -> "user"

\* baseMQTTInputFunc up to the switch: the range over the input-base category
\* visits the names in any order and stops at the first whose list has the
\* message's topic
baseMQTTInputFunc ==
    /\ inp.pc = "base"
    /\ LET section == sm.schemaData["input_base_topic"]
           hits == {e[1] : e \in {x \in section :
                       \E el \in x[2] : Matches(inp.topic, el.s)}}
       IN \E topicKey \in FirstHit(hits) :
             inp' = [inp EXCEPT !.pc = BaseHandler(topicKey), !.key = topicKey,
                                !.base = @ + 1, !.mark = upd.left]
    /\ UNCHANGED <<mqttVars, upd, sm, mc, shut, subFailed>>

\* case "update/pepeunit": c.handleUpdate(ctx, payload)
CallHandleUpdate(p) ==
    /\ inp.pc = "handleUpdate"
    /\ upd.left = inp.mark
    /\ handleUpdate(p)

\* handleUpdate returns to baseMQTTInputFunc, which returns to the combined handler
handleUpdateReturns ==
    /\ inp.pc = "handleUpdate"
    /\ upd.left < inp.mark
    /\ upd.pc = "done"
    /\ inp' = [inp EXCEPT !.pc = "user"]
    /\ UNCHANGED <<mqttVars, upd, sm, mc, shut, subFailed>>

\* handleEnvUpdate, handleSchemaUpdate or handleLogSync returns
OtherBaseHandler ==
    /\ inp.pc = "other"
    /\ inp' = [inp EXCEPT !.pc = "user"]
    /\ UNCHANGED <<mqttVars, upd, sm, mc, shut, subFailed>>

\* a combined handler that leaves out the user handler when a base topic matched
inputHandlerUnlessBase ==
    /\ inp.pc = "user"
    /\ inp' = [inp EXCEPT !.pc = "idle",
                          !.user = IF inp.inputHandler /\ inp.key = "" THEN @ + 1 ELSE @]
    /\ UNCHANGED <<mqttVars, upd, sm, mc, shut, subFailed>>

\* the combined handler: if c.inputHandler != nil { c.inputHandler(msg) }
inputHandler ==
    /\ inp.pc = "user"
    /\ inp' = [inp EXCEPT !.pc = "idle",
                          !.user = IF inp.inputHandler THEN @ + 1 ELSE @]
    /\ UNCHANGED <<mqttVars, upd, sm, mc, shut, subFailed>>

\* ---------------------------------------------------------- specification
\* The environments explored: what the callers, the broker and the network may
\* still do, whether the schema lists a log topic, and whether the broker
\* acknowledges every subscribe request.  Quiet has no log topic, Mirrored has
\* one, Inbound is about the messages that arrive.
Quiet ==
    [log |-> {FALSE}, acks |-> FALSE, calls |-> MaxCalls, ups |-> MaxUp,
     lost |-> MaxLost, msgs |-> 0]
Mirrored ==
    [log |-> {TRUE}, acks |-> FALSE, calls |-> MaxCalls, ups |-> MaxUp - 1,
     lost |-> MaxLost, msgs |-> 0]
Inbound ==
    [log |-> BOOLEAN, acks |-> FALSE, calls |-> MaxCalls - 1, ups |-> MaxUp - 1,
     lost |-> MaxLost - 1, msgs |-> MaxMsgs]
AckingQuiet ==
    [log |-> {FALSE}, acks |-> TRUE, calls |-> MaxCalls - 1, ups |-> MaxUp,
     lost |-> MaxLost, msgs |-> 0]
AckingCalls ==
    [log |-> {FALSE}, acks |-> TRUE, calls |-> MaxCalls, ups |-> MaxUp - 1,
     lost |-> MaxLost, msgs |-> 0]
AckingMirrored ==
    [log |-> {TRUE}, acks |-> TRUE, calls |-> MaxCalls - 1, ups |-> MaxUp - 1,
     lost |-> MaxLost, msgs |-> 0]
Environments == {Quiet, Mirrored, Inbound}

InitIn(envs) ==
    /\ subscriptions = {}
    /\ client = 0
    /\ connected = FALSE
    /\ connectMu = NoOwner
    /\ sess = [s \in Slots |-> [status |-> "unused", subs |-> {}]]
    /\ isPublishing = FALSE
    /\ stack = [t \in Threads |-> <<>>]
    /\ \E e \in envs :
          /\ logTopic \in e.log
          /\ acks = e.acks
          /\ callsLeft = e.calls
          /\ lostLeft = e.lost
          /\ upLeft = e.ups
          /\ msgsLeft = e.msgs
    /\ reader = [alive |-> TRUE, panicked |-> FALSE, after |-> FALSE]
    /\ desired = {}
    /\ reAtt = NoAttempts
    /\ shut = FALSE
    /\ subFailed = FALSE

Init == InitIn(Environments) /\ upd = NoUpdates /\ sm = NoSchema /\ mc = NoCycle /\ inp = NoInput

\* One step of goroutine t.
Step(t) ==
    \/ CheckConnected(t)
    \/ Attempt(t)
    \/ ErrLog(t)
    \/ OkLog(t)
    \/ Return(t)
    \/ Lock(t)
    \/ HandshakeOk(t)
    \/ \E kind \in {"refused", "timeout"} : HandshakeFails(t, kind)
    \/ ConnectedSet(t)
    \/ Unlock(t)
    \/ Disconnect(t)
    \/ ConnectionLostHandler(t)
    \/ OnConnectHandler(t)
    \/ ReplaySnapshot(t)
    \/ ReplayAttempt(t)

NextMQTT ==
    \/ \E t \in Callers :
          \/ StartConnect(t)
          \/ StartDisconnect(t)
          \/ StartPublish(t)
          \/ \E topics \in Batches : StartSubscribe(t, topics)
          \/ \E topics \in Batches : StartUnsubscribe(t, topics)
    \/ \E t \in Threads : Step(t)
    \/ \E s \in Slots : ConnectionLost(s) \/ TransportConnects(s)

NextReader ==
    \/ Deliver
    \/ HandlerReturns(Reader)
    \/ HandlerPanics(Reader)

Next == NextMQTT \/ NextReader

Spec == Init /\ [][Next]_vars

\* The scheduler lets every goroutine that can take a step take one; every wait
\* in the code has a timeout, so a step that waits ends.  Callers need not call
\* and the network need not fail or recover.
Fairness == \A t \in Callers \cup Aux : WF_vars(Step(t))

InitLive ==
    /\ InitIn({AckingQuiet, AckingCalls, AckingMirrored})
    /\ upd = NoUpdates /\ sm = NoSchema /\ mc = NoCycle /\ inp = NoInput

LiveSpec == InitLive /\ [][NextMQTT]_vars /\ Fairness

\* The update orchestrator by itself: the MQTT client is at rest.
Still ==
    [log |-> {FALSE}, acks |-> FALSE, calls |-> 0, ups |-> 0, lost |-> 0, msgs |-> 0]

InitUpd == InitIn({Still}) /\ upd \in Orchestrators /\ sm = NoSchema /\ mc = NoCycle /\ inp = NoInput

NextUpd ==
    \/ \E p \in Payloads : handleUpdate(p)
    \/ PerformUpdate
    \/ DownloadUpdate
    \/ ExtractTarGz
    \/ CopyFile
    \/ LoadFromFile
    \/ UpdateFromFile
    \/ SubscribeAllSchemaTopics
    \/ RemoveArchive
    \/ DownloadFileFromURL
    \/ Chmod
    \/ Rename
    \/ RemoveExecutable
    \/ Rename2
    \/ StopMainCycle
    \/ StartProcess
    \/ Exec

UpdSpec == InitUpd /\ [][NextUpd]_vars

\* The schema manager by itself: lookups and enumerations by one goroutine,
\* replacements of the schema by another.
InitSchema ==
    /\ InitIn({Still})
    /\ \E c \in SchemaClients : upd = c[1] /\ sm = c[2]
    /\ mc = NoCycle /\ inp = NoInput

NextSchema ==
    \/ \E v \in Values, type \in SearchTopicTypes, scope \in SearchScopes :
          FindTopicByUnitNode(v, type, scope)
    \/ SearchSection
    \/ GetInputBaseTopic
    \/ GetInputTopic
    \/ \E key \in TopicKeys : GetOutputTopic(key)
    \/ GetOutputBaseTopic
    \/ PublishToTopic
    \/ \E d \in Reloads : UpdateSchema(d)
    \/ \E d \in Reloads : CopySchemaFile(d)
    \/ loadSchema

SchemaSpec == InitSchema /\ [][NextSchema]_vars

\* The resubscriptions: a client that subscribes the topics of its schema, gets
\* another schema and subscribes again.
InitResub ==
    /\ InitIn({Still})
    /\ upd = NoUpdates
    /\ sm \in {NewSchemaManager(d, 2, MaxReloads) : d \in Reloads}
    /\ mc = NoCycle /\ inp = NoInput

NextResub ==
    \/ GetInputBaseTopic
    \/ GetInputTopic
    \/ \E d \in Reloads : UpdateSchema(d)
    \/ \E d \in Reloads : CopySchemaFile(d)
    \/ loadSchema

ResubSpec == InitResub /\ [][NextResub]_vars

\* The main cycle by itself: a client with or without MQTT whose cycle has not
\* started, the ticker, the context and a goroutine that may stop the cycle.
InitCycle ==
    /\ InitIn({Still})
    /\ \E q \in BOOLEAN : upd = [NoUpdates EXCEPT !.running = FALSE, !.enableMQTT = q]
    /\ sm \in {NewSchemaManager(d, 0, 0) : d \in CycleSchemas}
    /\ mc \in Cycles
    /\ inp = NoInput

NextCycle ==
    \/ RunMainCycle
    \/ TickerFires
    \/ Cancel
    \/ CallStopMainCycle
    \/ SelectCase
    \/ isRunning
    \/ baseMQTTOutputHandler
    \/ PublishState
    \/ outputHandler

CycleSpec == InitCycle /\ [][NextCycle]_vars

\* The input handlers by themselves: messages arrive at a client whose update
\* cycle runs inside the handler; every message may be an update message.
Arriving ==
    [log |-> {FALSE}, acks |-> FALSE, calls |-> 0, ups |-> 0, lost |-> 0, msgs |-> MaxMsgs]

InitInput ==
    /\ InitIn({Arriving})
    /\ \E o \in Orchestrators : upd = [o EXCEPT !.left = MaxMsgs]
    /\ sm \in {NewSchemaManager(d, 0, 0) : d \in InputSchemas}
    /\ mc = NoCycle
    /\ inp = NoInput

NextInput ==
    \/ \E handler \in BOOLEAN : SetMQTTInputHandler(handler)
    \/ \E topic \in MsgTopics : messageHandler(topic)
    \/ baseMQTTInputFunc
    \/ \E p \in Payloads : CallHandleUpdate(p)
    \/ handleUpdateReturns
    \/ OtherBaseHandler
    \/ inputHandler
    \/ PerformUpdate
    \/ DownloadUpdate
    \/ ExtractTarGz
    \/ CopyFile
    \/ LoadFromFile
    \/ UpdateFromFile
    \/ SubscribeAllSchemaTopics
    \/ RemoveArchive
    \/ DownloadFileFromURL
    \/ Chmod
    \/ Rename
    \/ RemoveExecutable
    \/ Rename2
    \/ StopMainCycle
    \/ StartProcess
    \/ Exec

InputSpec == InitInput /\ [][NextInput]_vars

\* ------------------------------------------------------------------ claims
Calls == {f \in AllFrames : f.op \in RetryOps}
Replays == {f \in AllFrames : f.op = "Replay"}

\* C1: after any sequence of SubscribeTopics and UnsubscribeTopics calls,
\* interleaved with connection losses, Disconnect calls and successful or failed
\* reconnects, the journal is the additions minus the removals in call order,
\* whether the calls return nil or an error.
JournalIsNetEffect == subscriptions = desired

\* C1 witness: both topics were added and one was removed again, the connection
\* was lost in between, and the removing call ended with an error.
JournalAfterLossAndError ==
    /\ desired = {"t2"}
    /\ lostLeft < MaxLost
    /\ \E f \in Calls : f.op = "Unsubscribe" /\ f.pc = "done" /\ f.ret = "err"

\* C2: a Publish call that finds the session not connected performs exactly one
\* forceReconnect before its first send attempt: one is under way or done as
\* soon as the check is over, and none when the session was connected.
OneReconnectBeforeFirstSend ==
    \A f \in Calls :
        f.op = "Publish" /\ f.pc # "check" =>
            /\ f.fr0 = (IF f.pre THEN 0 ELSE 1)
            /\ f.pc = "fr0" => f.att = 0

\* C2 witness: a Publish that found no session has made its first send attempt
\* after its one forceReconnect.
PublishSentAfterReconnect ==
    \E f \in Calls : f.op = "Publish" /\ ~f.pre /\ f.att = 1 /\ f.fr0 = 1 /\ f.fr = 0

\* C3: a Publish, an UnsubscribeTopics or a per-topic subscribe that starts on a
\* connected session makes at most two send attempts and at most one
\* forceReconnect, whatever the attempts' outcomes.
AtMostTwoAttempts ==
    \A f \in Calls : f.pre => f.att <= 2 /\ f.fr <= 1

\* C4: the number of network handshakes in progress never exceeds 1.
AtMostOneHandshake == Cardinality(Handshakes) <= 1

\* C5 as claimed: after a reconnect no topic gets more than one subscribe
\* attempt on the new session from the reconnect's replay and the call that
\* reconnected.
OneAttemptPerReconnect == \A k \in Topics : reAtt[k] <= 1

\* C5 as amended: a run of resubscribeAll goes through the journal as it read it
\* (nothing when the session is not connected); each of these topics gets one
\* subscribe attempt from it, a topic that was not in the journal gets none.
ReplayAttemptsJournalOnce ==
    \A f \in Replays :
        f.pc # "snap" =>
            /\ f.snap = f.journal
            /\ f.todo \subseteq f.snap
            /\ \A k \in Topics :
                  f.cnt[k] = (IF k \in f.snap \ f.todo THEN 1 ELSE 0)

\* C5 witness: a replay that ran after t1 had been removed from the journal has
\* made its one attempt for t2 and none for t1.
ReplayAfterRemoval ==
    \E f \in Replays :
        /\ f.journal = {"t2"}
        /\ f.todo = {}
        /\ f.cnt["t2"] = 1
        /\ f.cnt["t1"] = 0

EveryTopicAttempted ==
    \A f \in Calls :
        f.op = "Subscribe" /\ f.pc = "done" /\ f.failed # {} =>
            Range(f.topics) \subseteq f.tried

\* C7 as amended: SubscribeTopics attempts the topics in order and returns the
\* error of the first topic whose attempts fail; the topics after it get no
\* attempt in that call.
FirstFailureEndsBatch ==
    \A f \in Calls :
        f.op = "Subscribe" /\ f.failed # {} =>
            /\ f.pc = "done"
            /\ f.ret = "err"
            /\ f.failed = {f.topics[f.i]}
            /\ f.tried = {f.topics[j] : j \in 1..f.i}

\* C7 witness: the first topic of a batch of two failed and the call returned.
BatchCutShort ==
    \E f \in Calls :
        /\ f.op = "Subscribe"
        /\ Len(f.topics) = 2
        /\ f.failed = {f.topics[1]}
        /\ f.pc = "done"

\* C8: a panic of the input handler is caught inside the message callback: the
\* reader path stays alive, and a message that arrives later is delivered.
PanicStaysInCallback == reader.panicked => reader.alive

\* C8 witness: a message is in the handler after an earlier one made it panic.
DeliveredAfterPanic ==
    /\ reader.after
    /\ At(Reader, {"Msg"}, "handler")

\* The update message in hand reached the built-in update cycle.
BuiltIn == upd.pc # "idle" /\ upd.enableREST /\ ~upd.custom /\ upd.p.json

IsPrefix(a, b) == Len(a) <= Len(b) /\ a = SubSeq(b, 1, Len(a))

ReloadSequence ==
    <<"DownloadUpdate", "ExtractTarGz", "LoadFromFile", "UpdateFromFile",
      "SubscribeTopics">>
BinarySequence == ReloadSequence \o <<"DownloadFileFromURL", "Rename">>
ExecSequence == BinarySequence \o <<"StopMainCycle", "Exec">>

\* C9: whatever the restart mode, an update message whose firmware link is
\* present but null or empty never downloads or replaces the binary, never
\* stops the main cycle and never spawns or replaces the process; when its
\* steps succeed, the environment and the schema are reloaded and the schema
\* topics resubscribed.
NullLinkReloadsOnly ==
    BuiltIn /\ (upd.p.link.type = "null" \/ upd.p.link = [type |-> "string", s |-> ""]) =>
        /\ IsPrefix(upd.trace, ReloadSequence)
        /\ upd.pc \notin {"exited", "replaced"}
        /\ upd.pc = "done" /\ ~upd.err =>
              /\ upd.trace = ReloadSequence
              /\ upd.settings = upd.envFile
              /\ upd.schema = upd.schemaFile

\* C9 witness: under restart_popen a message with a null link has been handled
\* to the end: the new environment is loaded, the binary is the old one.
NullLinkHandled ==
    /\ upd.pc = "done"
    /\ ~upd.err
    /\ upd.p.link.type = "null"
    /\ upd.restartMode = "restart_popen"
    /\ upd.settings = "new"
    /\ upd.trace = ReloadSequence

\* C10: for an update message with a non-empty firmware link, under
\* restart_exec the steps are the environment and schema update, the
\* resubscription, the download of the binary to the staging path, the
\* replacement of the live binary and one call of exec, in this order; under
\* no_restart the same up to the replacement of the binary, and then neither
\* the main cycle is stopped nor a process started or replaced.
FirmwareLinkSequence ==
    BuiltIn /\ upd.p.link = [type |-> "string", s |-> "http://x/fw"] =>
        /\ upd.restartMode = "restart_exec" =>
              /\ IsPrefix(upd.trace, ExecSequence)
              /\ upd.pc = "done" => upd.err
              /\ upd.pc = "replaced" =>
                    upd.trace = ExecSequence /\ upd.binary = "new" /\ ~upd.staged
        /\ upd.restartMode = "no_restart" =>
              /\ IsPrefix(upd.trace, BinarySequence)
              /\ upd.pc \in {"done", "DownloadFileFromURL", "Chmod", "Rename", "RemoveExecutable",
                             "Rename2", "restart", "PerformUpdate", "DownloadUpdate",
                             "ExtractTarGz", "CopyFile", "LoadFromFile", "UpdateFromFile",
                             "SubscribeAllSchemaTopics", "Remove"}
              /\ upd.pc = "done" /\ ~upd.err =>
                    upd.trace = BinarySequence /\ upd.binary = "new" /\ upd.running

\* C10 witness: under restart_exec the process image has been replaced after
\* the whole sequence.
ExecAfterWholeSequence ==
    /\ upd.restartMode = "restart_exec"
    /\ upd.pc = "replaced"
    /\ upd.trace = ExecSequence

\* C11 (the claim as stated): under env_schema_only no update message leads to
\* a download of the binary, to a staged binary or to a change of the live
\* executable.
SchemaOnlyKeepsBinary ==
    upd.restartMode = "env_schema_only" =>
        /\ upd.binary = "old"
        /\ ~upd.staged
        /\ "DownloadFileFromURL" \notin Range(upd.trace)

\* C12 (the claim as stated): every update message that the built-in cycle
\* has handled, REST and MQTT being enabled, started the download of the
\* environment and schema archive, with or without a firmware link in it.
EveryUpdateDownloads ==
    BuiltIn /\ upd.enableMQTT /\ upd.pc = "done" =>
        "DownloadUpdate" \in Range(upd.trace)

\* C13 (the claim as stated): with a custom update handler registered, every
\* update message calls the handler once and the built-in cycle does nothing
\* else for it.
CustomHandlerPreempts ==
    upd.custom /\ upd.pc # "idle" =>
        /\ upd.trace = <<"customUpdateHandler">>
        /\ upd.pc = "done"

\* C14: a step of the update cycle that fails in the download of the archive
\* or in its extraction to the temporary directory ends the cycle with the
\* error logged, and leaves the environment file, the schema file, the loaded
\* settings and schema, the journal and the executable as they were, does not
\* stop the main cycle and takes no restart step.
FailedDownloadCommitsNothing ==
    [][upd.pc \in {"DownloadUpdate", "ExtractTarGz"} /\ upd'.err =>
          /\ upd'.pc = "done"
          /\ upd'.envFile = upd.envFile /\ upd'.schemaFile = upd.schemaFile
          /\ upd'.settings = upd.settings /\ upd'.schema = upd.schema
          /\ upd'.binary = upd.binary /\ upd'.staged = upd.staged
          /\ upd'.running = upd.running
          /\ subscriptions' = subscriptions
          /\ Range(upd'.trace) \subseteq {"DownloadUpdate", "ExtractTarGz"}]_vars

\* C14 witness: the download of the archive failed and the cycle is over.
DownloadFailed ==
    /\ upd.pc = "done"
    /\ upd.err
    /\ upd.trace = <<"DownloadUpdate">>
    /\ ~upd.archive
    /\ upd.running
    /\ upd.envFile = "old" /\ upd.settings = "old"

\* A call of FindTopicByUnitNode has returned, and the schema it read was
\* never replaced.
Finds(type) ==
    /\ sm.rd.op = "FindTopicByUnitNode"
    /\ sm.rd.pc = "done"
    /\ sm.rd.type = type
    /\ sm.hist = {sm.schemaData}

ScopeCategories(scope) ==
    CASE scope = "input" -> {"input_topic"}
      [] scope = "output" -> {"output_topic"}
      [] scope = "all" -> {"input_topic", "output_topic"}

SecondSegmentIs(s, v) == Len(Split(s)) >= 2 /\ Split(s)[2] = v

\* The logical names of the categories that list a topic string whose second
\* segment is v, or that is v.
UuidNames(categories, v) ==
    {e[1] : e \in {x \in UNION {sm.schemaData[c] : c \in categories} :
                      \E el \in x[2] : el.str /\ SecondSegmentIs(el.s, v)}}
FullNames(categories, v) ==
    {e[1] : e \in {x \in UNION {sm.schemaData[c] : c \in categories} :
                      \E el \in x[2] : el.str /\ el.s = v}}

NoEmptyName ==
    \A e \in sm.schemaData["input_topic"] \cup sm.schemaData["output_topic"] : e[1] # ""

UuidLookup(v, scope) ==
    /\ ~sm.rd.err => sm.rd.name \in UuidNames(ScopeCategories(scope), v)
    /\ UuidNames(ScopeCategories(scope), v) = {} => sm.rd.err
    /\ UuidNames({"input_topic"}, v) # {} /\ UuidNames({"output_topic"}, v) = {} =>
          /\ scope = "input" => ~sm.rd.err
          /\ scope = "output" => sm.rd.err

\* C15 (the claim as stated): a lookup by unit-node id returns a name only if
\* a topic listed under it in a category of the scope has the id as its
\* second segment, and not-found when no topic of the scope has; an id that
\* occurs only in an input topic is found with scope input and not found
\* with scope output.
UuidLookupBySecondSegment ==
    Finds("unit_node_uuid") => UuidLookup(sm.rd.v, sm.rd.scope)

\* C15 (amended): the same, for a searched id that is not empty and a schema
\* whose logical names are not empty.
UuidLookupOfNamedTopics ==
    Finds("unit_node_uuid") /\ sm.rd.v # <<>> /\ NoEmptyName =>
        UuidLookup(sm.rd.v, sm.rd.scope)

\* C15 witness: the id "1" occurs in an input topic only and the lookup with
\* scope output has returned not-found.
UuidNotFoundInOutput ==
    /\ Finds("unit_node_uuid")
    /\ sm.rd.v = <<"1">> /\ sm.rd.scope = "output" /\ sm.rd.err
    /\ UuidNames({"input_topic"}, <<"1">>) = {"x"}
    /\ NoEmptyName

FullNameLookup(v, scope) ==
    /\ ~sm.rd.err => sm.rd.name \in FullNames(ScopeCategories(scope), v)
    /\ sm.rd.err <=> FullNames(ScopeCategories(scope), v) = {}

\* C16 (the claim as stated): a lookup by full name returns a name whose
\* list, in a category of the scope, has a string equal to the searched
\* topic, and returns not-found exactly when no topic string of the
\* categories of the scope equals it.
FullNameLookupExact ==
    Finds("full_name") => FullNameLookup(sm.rd.v, sm.rd.scope)

\* C16 (amended): the same, for a schema whose logical names are not empty.
FullNameLookupOfNamedTopics ==
    Finds("full_name") /\ NoEmptyName => FullNameLookup(sm.rd.v, sm.rd.scope)

\* C16 witness: "a/1/p" is listed in the input base category and in an output
\* topic, and the lookup with scope input has returned not-found.
FullNameOutsideScope ==
    /\ Finds("full_name")
    /\ sm.rd.v = U1 /\ sm.rd.scope = "input" /\ sm.rd.err
    /\ sm.schemaData["input_base_topic"] # {}
    /\ FullNames({"output_topic"}, U1) # {}
    /\ NoEmptyName

\* C17 (the claim as stated): what a lookup or an enumeration has read of the
\* categories is what one schema, the old one or a new one, has in all of them.
LookupSeesOneSchema ==
    \E d \in sm.hist : \A o \in sm.rd.obs : d[o[1]] = o[2]

\* C18 (the claim as stated): the goroutine that runs the connection-lost
\* handler only clears the connected flag: it starts no forceReconnect, no
\* subscribe and no publish.
LossOnlyFlags ==
    \A t \in Aux :
        ~Idle(t) /\ stack[t][1].op = "ConnectionLost" =>
            \A j \in DOMAIN stack[t] :
                stack[t][j].op \notin {"ForceReconnect", "Publish", "Subscribe"}

\* The state IsConnected() reports.
Connected == connected /\ IsConnected

\* C19: a Disconnect that finds the session not connected returns nil and
\* changes neither the connected flag, nor the sessions, nor the journal.
DisconnectWhenDownIsNoOp ==
    [][\A t \in Callers :
          At(t, {"Disconnect"}, "lock") /\ ~IsConnected /\ stack'[t] # stack[t] =>
              /\ connected' = connected
              /\ sess' = sess /\ client' = client
              /\ subscriptions' = subscriptions
              /\ stack'[t][Len(stack'[t])].ret = "ok"]_vars

\* C19 witness: a Disconnect of a client that never connected has returned
\* nil, after a call that put a topic into the journal.
DisconnectedNeverConnected ==
    /\ \A s \in Slots : sess[s].status # "up"
    /\ upLeft = MaxUp
    /\ subscriptions # {}
    /\ ~connected
    /\ \E t \in Callers : At(t, {"Disconnect"}, "done") /\ Top(t).ret = "ok"

LiveSessions == {s \in Slots : sess[s].status \in {"connecting", "up", "down"}}

\* C21 (the claim as stated): at any time at most one transport session
\* created by this client is live (connected or still trying to connect).
AtMostOneLiveSession == Cardinality(LiveSessions) <= 1

\* C22 (the claim as stated): every Publish, SubscribeTopics and
\* UnsubscribeTopics call that a caller started eventually returns to it, with
\* success or with an error, when every goroutine that can take a step takes
\* one and every handshake and send attempt completes or times out.
EveryCallReturns ==
    \A t \in Callers :
        (~Idle(t) /\ stack[t][1].op \in RetryOps) ~> Idle(t)

\* C23 (the claim as stated): once the context passed to RunMainCycle is
\* cancelled, or StopMainCycle was called while the cycle runs, no tick that the
\* loop takes afterwards starts the housekeeping step or the output step.
NoTickAfterStop ==
    [][mc.pc = "tick" /\ mc'.pc = "base" => ~mc.late /\ ~mc.stopped]_vars

\* The schema has a state output topic, and at least the interval has passed
\* since the last successful state publish.
StatePublishDue ==
    /\ \E e \in sm.schemaData["output_base_topic"] :
          e[1] = "state/pepeunit" /\ e[2] # {}
    /\ mc.now - mc.lastOk >= mc.interval

\* What a tick does, a state publish being attempted exactly when due holds.
TickSteps(due) ==
    /\ mc.pc = "base" /\ mc'.pc # "base" => (mc'.pc = "publish") = due
    /\ mc.pc \in {"base", "publish"} /\ mc'.pc \notin {"base", "publish"}
       /\ mc.outputHandler => mc'.pc = "output"
    /\ mc.outputHandler /\ mc'.pc \in {"select", "tick", "returned"} =>
          mc'.outputs = mc'.ticks
    /\ mc.pc = "publish" /\ mc'.pc # "publish" /\ mc'.failed =>
          /\ mc'.lastStateSend = mc.lastStateSend
          /\ mc'.lastOk = mc.lastOk

\* C24 (the claim as stated): in each tick a state publish is attempted
\* exactly when the schema has a state output topic and the interval has
\* passed since the last successful state publish; the output handler runs in
\* every tick after the housekeeping step; a failed state publish leaves the
\* last-send time as it was.
StatePublishWhenDue == [][TickSteps(StatePublishDue)]_vars

\* C24 (amended): the same, the state publish being attempted exactly when, in
\* addition, the client has an MQTT client.
StatePublishWhenDueWithMQTT ==
    [][TickSteps(StatePublishDue /\ upd.enableMQTT)]_vars

\* C24 witness: with an interval of two periods, the state publish of the
\* first tick failed and the second tick, one period later, publishes again.
StateRepublishedAfterFailure ==
    /\ mc.pc = "publish"
    /\ mc.failed
    /\ mc.ticks = 2
    /\ mc.interval = 2
    /\ mc.currentTime = 2
    /\ mc.lastStateSend = ZeroTime
    /\ mc.outputs = 1

\* C25 (the claim as stated): at every moment of UpdateBinaryFromURL and after
\* it returned, the executable path holds the complete old binary or the
\* complete new one, and the old one when the replacement did not succeed.
BinaryReplacedAtomically ==
    /\ upd.binary \in {"old", "new"}
    /\ upd.pc = "done" /\ upd.err /\ "Rename" \notin Range(upd.trace) =>
          upd.binary = "old"

\* A call of op has returned, and the schema it read was never replaced.
Returned(op) ==
    /\ sm.rd.op = op
    /\ sm.rd.pc = "done"
    /\ sm.hist = {sm.schemaData}

\* The text of the elements listed in the categories, under any name.
Listed(categories) ==
    {el.s : el \in UNION {e[2] : e \in UNION {sm.schemaData[c] : c \in categories}}}

\* C26: SubscribeAllSchemaTopics hands to SubscribeTopics exactly the topics of
\* the input-base category and of the input category of the schema: every one
\* of them, and no topic that only an output or output-base category lists;
\* when MQTT is not enabled it returns an error and SubscribeTopics is not
\* called.
SubscribesInputTopics ==
    Returned("SubscribeAllSchemaTopics") =>
        IF upd.enableMQTT
        THEN /\ sm.rd.passed
             /\ Listed({"input_base_topic", "input_topic"}) \subseteq sm.rd.topics
             /\ \A k \in sm.rd.topics : k \in Listed({"input_base_topic", "input_topic"})
             /\ \A k \in Listed({"output_topic", "output_base_topic"})
                        \ Listed({"input_base_topic", "input_topic"}) :
                    k \notin sm.rd.topics
        ELSE ~sm.rd.passed /\ sm.rd.ret = "err"

\* C26 witness: the schema lists the update topic in the input-base category,
\* "a" and the number 5 in the input category and "a/2/p" in output
\* categories only; the list handed over is "a/1/p", "a" and "5".
SubscribedBaseAndInput ==
    /\ Returned("SubscribeAllSchemaTopics")
    /\ sm.rd.passed
    /\ sm.rd.topics = {U1, U3, <<"5">>}
    /\ sm.schemaData["input_base_topic"] # {}
    /\ U2 \in Listed({"output_topic"})
    /\ U2 \in Listed({"output_base_topic"})

\* The listings of the key in the two output categories.
KeyListings(key) ==
    UNION {{<<c, el.s>> : el \in UNION {e[2] : e \in {x \in sm.schemaData[c] : x[1] = key}}} :
              c \in {"output_topic", "output_base_topic"}}

\* C27: PublishToTopics with MQTT enabled makes one publish for every topic
\* listed under the key in the output category and in the output-base
\* category, and no other; a publish that fails does not keep the others from
\* being made.
PublishesToEveryTopic ==
    Returned("PublishToTopics") /\ upd.enableMQTT =>
        /\ sm.rd.sent = KeyListings(sm.rd.key)
        /\ sm.rd.n = Cardinality(KeyListings(sm.rd.key))
        /\ sm.rd.failed \subseteq sm.rd.sent

\* C27 witness: the key has three topics in the two categories; the publish
\* to one of them failed and all three were made.
PublishedDespiteFailure ==
    /\ Returned("PublishToTopics")
    /\ Cardinality(KeyListings(sm.rd.key)) = 3
    /\ sm.rd.n = 3
    /\ Cardinality(sm.rd.failed) = 1
    /\ \E k \in sm.rd.sent \ sm.rd.failed : k[1] = "output_base_topic"

\* C28 (the claim as stated): when PublishToTopics is called with MQTT enabled
\* and the publish to at least one topic of the key fails, it returns an error.
PublishFailureIsReturned ==
    Returned("PublishToTopics") /\ upd.enableMQTT /\ sm.rd.failed # {} =>
        sm.rd.ret = "err"

\* C29: when the forceReconnect that a Publish, SubscribeTopics or
\* UnsubscribeTopics call makes because it found the session not connected
\* fails, the call returns that error at once: it has made no send attempt
\* and no other forceReconnect.
EntryReconnectFailureEndsCall ==
    [][\A t \in Threads :
          /\ At(t, {"ForceReconnect"}, "wait")
          /\ stack[t][Len(stack[t]) - 1].pc = "fr0"
          /\ stack'[t] # stack[t]
          /\ sess'[Top(t).s].status # "up"
          => /\ Len(stack'[t]) = Len(stack[t]) - 1
             /\ LET f == stack'[t][Len(stack'[t])] IN
                /\ f.op \in RetryOps
                /\ f.pc = "done"
                /\ f.ret = IF sess'[Top(t).s].status = "connecting"
                           THEN "timeout" ELSE "failed"
                /\ f.att = 0 /\ f.tried = {} /\ f.fr = 0 /\ f.fr0 = 1]_vars

\* C29 witness: an UnsubscribeTopics call that found no connected session has
\* returned the error of the refused reconnect it performed, without a send
\* attempt; the session that reconnect opened is closed.
UnsubscribeEndedByReconnect ==
    \E t \in Callers :
        /\ At(t, {"Unsubscribe"}, "done")
        /\ Top(t).ret = "failed"
        /\ Top(t).att = 0
        /\ Top(t).fr0 = 1
        /\ client # 0 /\ sess[client].status = "closed"

\* C30: from its first step to its return, with nil or with an error, a
\* SubscribeTopics call finds every topic of its batch in the journal and an
\* UnsubscribeTopics call finds none of them there: the journal is updated
\* for the whole batch before the call's first reconnect or send attempt.
JournalHoldsBatch ==
    \A t \in Callers :
        \A j \in DOMAIN stack[t] :
            LET f == stack[t][j] IN
            /\ f.op = "Subscribe" => Range(f.topics) \subseteq subscriptions
            /\ f.op = "Unsubscribe" => Range(f.topics) \cap subscriptions = {}

\* C30 witness: a SubscribeTopics call for two topics has returned the error
\* of its entry reconnect, and both topics are in the journal.
BatchInJournalAfterFailure ==
    \E t \in Callers :
        /\ At(t, {"Subscribe"}, "done")
        /\ Top(t).ret = "timeout"
        /\ Top(t).att = 0
        /\ Top(t).topics = <<"t1", "t2">>
        /\ subscriptions = {"t1", "t2"}

\* The binary step of the update cycle: UpdateBinaryFromURL.
BinarySteps == {"DownloadFileFromURL", "Chmod", "Rename", "RemoveExecutable", "Rename2"}

\* C31: in an update cycle with a firmware link, the binary step begins only
\* after the settings and the schema are reloaded from their files and the
\* topics resubscribed; when the binary step fails, the reloaded environment and
\* schema stay in effect and no restart is performed: the cycle does not stop
\* the main cycle and no process is started or replaced.
ReloadBeforeBinary ==
    [][/\ upd'.pc \in BinarySteps =>
             /\ IsPrefix(ReloadSequence, upd'.trace)
             /\ LinkStr(upd'.p) # ""
             /\ upd'.settings = upd'.envFile
             /\ upd'.schema = upd'.schemaFile
       /\ upd.pc \in BinarySteps /\ upd'.pc = "done" =>
             /\ upd'.err
             /\ upd'.settings = upd.envFile
             /\ upd'.schema = upd.schemaFile
             /\ upd'.running = upd.running
             /\ Range(upd'.trace) \cap {"Rename", "StopMainCycle", "Start", "Exit", "Exec"} = {}]_vars

\* C31 witness: under restart_exec the binary was downloaded and could not be
\* put in place: the update ended with an error, the new environment and schema
\* are loaded, the binary is not the new one and the main cycle still runs.
BinaryFailedAfterReload ==
    /\ upd.pc = "done"
    /\ upd.err
    /\ upd.restartMode = "restart_exec"
    /\ upd.trace = ReloadSequence \o <<"DownloadFileFromURL">>
    /\ upd.settings = "new"
    /\ upd.schema = "new"
    /\ upd.binary # "new"
    /\ upd.running

\* The next step of goroutine t reads or writes the connection state: the entry
\* check and the send attempts read c.client, connectLocked sets c.connected
\* after the handshake, the callbacks set c.connected, resubscribeAll reads
\* c.client.
Accesses(t) ==
    \/ ~Idle(t) /\ Top(t).op \in RetryOps /\ Top(t).pc \in {"check", "try1", "try2", "try3"}
    \/ At(t, ConnOps, "okset")
    \/ At(t, {"ConnectionLost", "OnConnect"}, "run")
    \/ ~Idle(t) /\ Top(t).op = "Replay" /\ Top(t).pc \in {"snap", "loop"}

\* The next step of goroutine t is a callback's write of c.connected.
CallbackWrites(t) == At(t, {"ConnectionLost", "OnConnect"}, "run")

\* C32: the connection state is read and written under a lock: when the
\* connection-lost or the on-connect callback is about to write it, the
\* callback holds the connect lock, or no other goroutine is about to read or
\* write the connection state.
ConnectionStateUnderLock ==
    \A t \in Threads :
        CallbackWrites(t) =>
            \/ connectMu = t
            \/ \A u \in Threads \ {t} : ~Accesses(u)

\* The topics the current schema lists under a name of the input-base category.
ListedUnder(topicKey) ==
    UNION {{el.s : el \in e[2]} :
              e \in {x \in sm.schemaData["input_base_topic"] : x[1] = topicKey}}

\* The names of the input-base category that list the topic.
KeysOf(topic) ==
    {e[1] : e \in {x \in sm.schemaData["input_base_topic"] :
                      topic \in {el.s : el \in x[2]}}}

\* The base handling of the message in hand chose the update cycle.
UpdateTriggered == inp.base = 1 /\ inp.key = "update/pepeunit"

\* C33 as claimed: the base handling of a message starts the update cycle
\* exactly when the message's topic equals one of the topics the current schema
\* lists under "update/pepeunit" in the input-base category.
UpdateExactlyOnUpdateTopic ==
    inp.base = 1 =>
        (UpdateTriggered <=> inp.topic \in ListedUnder("update/pepeunit"))

\* C33 as amended: the update cycle starts only for a topic listed under
\* "update/pepeunit", and for every such topic that no other name of the
\* input-base category lists; an update cycle that runs was started so.
UpdateOnlyOnUpdateTopic ==
    /\ inp.base = 1 =>
          /\ UpdateTriggered => inp.topic \in ListedUnder("update/pepeunit")
          /\ KeysOf(inp.topic) = {"update/pepeunit"} => UpdateTriggered
    /\ upd.pc \notin {"idle", "done"} =>
          UpdateTriggered /\ inp.topic \in ListedUnder("update/pepeunit")

\* C33 witness: a message on "a/1", which shares the unit-node segment with the
\* update topic "a/1/p", went through the base handling and the user handler
\* without an update, although the schema lists an update topic.
NoUpdateOnSiblingTopic ==
    /\ inp.topic = U12
    /\ inp.pc = "idle"
    /\ inp.base = 1
    /\ inp.user = 1
    /\ inp.key = ""
    /\ U1 \in ListedUnder("update/pepeunit")
    /\ upd.left = MaxMsgs

\* The update cycle ended the process: os.Exit(0) or a successful exec.
ProcessEnded == upd.pc \in {"exited", "replaced"}

\* The combined handler is done with the message in hand.
MessageHandled == inp.pc = "idle" /\ inp.base = 1

\* The user handler runs after the base handling and at most once per message;
\* without a call of SetMQTTInputHandler there is no base handling and no update.
BaseThenUser ==
    /\ inp.user > 0 => inp.base = 1 /\ inp.user = 1
    /\ inp.pc \in {"base", "handleUpdate", "other", "user"} => inp.user = 0
    /\ MessageHandled /\ inp.inputHandler => inp.user = 1
    /\ ~inp.set => inp.base = 0 /\ inp.user = 0 /\ upd.pc = "idle"

\* C34 as claimed: for every inbound message the combined handler runs the base
\* handling first and then the user handler exactly once, also for a message
\* that matched a base topic and whatever the base handling did; if
\* SetMQTTInputHandler was never called, no base handling takes place.
CombinedHandlerRunsBoth ==
    /\ BaseThenUser
    /\ ProcessEnded /\ inp.inputHandler => inp.user = 1

\* C34 as amended: the same, except that a message whose base handling ends the
\* process never reaches the user handler.
CombinedHandlerUnlessRestart ==
    /\ BaseThenUser
    /\ ProcessEnded => inp.pc = "handleUpdate" /\ inp.user = 0

\* C34 witness: a message on the update topic went through the update cycle,
\* which failed, and then through the user handler.
UserHandlerAfterUpdate ==
    /\ MessageHandled
    /\ inp.key = "update/pepeunit"
    /\ inp.inputHandler
    /\ inp.user = 1
    /\ upd.pc = "done"
    /\ upd.err
    /\ upd.trace # <<>>

\* C35: a Publish, SubscribeTopics or UnsubscribeTopics call returns nil only
\* if, for the message or for every topic of the call, the last send attempt
\* made for it was acknowledged within its timeout without error.
NilMeansLastAttemptOk ==
    \A f \in Calls :
        f.pc \in {"oklog", "done"} /\ (f.pc = "done" => f.ret = "ok") =>
            f.good = Units(f)

\* C35 witness: a SubscribeTopics call for two topics returned nil although
\* the first attempt for the second topic timed out: its second attempt, after
\* the reconnect, was acknowledged.
NilAfterRetry ==
    \E f \in Calls :
        /\ f.op = "Subscribe"
        /\ f.pc = "done"
        /\ f.ret = "ok"
        /\ f.topics = <<"t1", "t2">>
        /\ f.att = 2
        /\ f.fr = 1

\* C36: no goroutine tries to acquire the connect lock while it holds it: the
\* log call connectLocked makes under the lock, mirrored through Publish, never
\* reaches forceReconnect, so no caller waits for ever for the connect lock.
NoLockWhileHolding ==
    \A t \in Threads :
        ~(At(t, ConnOps \cup {"Disconnect"}, "lock") /\ connectMu = t)

\* C37: after Disconnect has returned, the client stays disconnected until
\* Connect is called: no Publish, SubscribeTopics or UnsubscribeTopics call that
\* comes later, the logger's mirrored entries included, brings a session up.
DisconnectedUntilConnect == shut => ~IsConnected

\* C38: the main cycle is stopped only on paths that end with the process
\* terminated or replaced: when handleUpdate returns, also after a restart step
\* that failed, the main cycle is still running.
MainCycleRunsAfterFailedRestart == upd.pc = "done" => upd.running

\* The schema the last SubscribeAllSchemaTopics call read is the current one.
ReadCurrentSchema ==
    sm.rd.obs = {<<"input_base_topic", sm.schemaData["input_base_topic"]>>,
                 <<"input_topic", sm.schemaData["input_topic"]>>}

\* C39: after a schema update followed by a successful resubscription, the
\* journal is the set of input-base and input topics of the current schema: the
\* topics of the old schema that the new one does not list are not in it.
JournalIsCurrentSchema ==
    /\ sm.rd.op = "SubscribeAllSchemaTopics"
    /\ sm.rd.pc = "done"
    /\ sm.rd.ret = "nil"
    /\ ReadCurrentSchema
    => subscriptions = GetTopics(sm.schemaData["input_base_topic"])
                          \cup GetTopics(sm.schemaData["input_topic"])

\* No call and no replay is in flight: every goroutine is at rest, or its call
\* has finished and is about to return.
Quiescent ==
    \A t \in Callers \cup Aux : Idle(t) \/ (Len(stack[t]) = 1 /\ Top(t).pc = "done")

\* C40: whenever no operation or replay is in flight and no subscribe attempt
\* has failed, the topics subscribed on the live session are topics of the
\* journal, also after an UnsubscribeTopics call ran while resubscribeAll was
\* replaying the journal.
LiveSubscriptionsInJournal ==
    Quiescent /\ ~subFailed /\ IsConnected => sess[client].subs \subseteq subscriptions

====
